---- MODULE Spec2Model ----
(***************************************************************************)
(* A model of vtds-cluster-kvm: the controller's Cluster object, its       *)
(* parallel fan-out over node SSH connections, the subprocess wait loops,  *)
(* the node connection set-up, and the blade agent                         *)
(* (deploy_cluster_to_blade.py).                                           *)
(*                                                                         *)
(* Each subsystem has its own variables and its own specification; a       *)
(* specification holds the variables of the other subsystems at their      *)
(* initial values.                                                         *)
(***************************************************************************)
EXTENDS Integers, Sequences, FiniteSets, TLC

VARIABLES
    \* ---- Cluster object (private/cluster.py) ----
    prepared,        \* self.prepared
    cpc,             \* position inside deploy(): "idle" when no call is running
    keyIdx,          \* index of the connection the SSH key loop of deploy() is at
    ctxOpen,         \* the ssh_connect_blades() context is entered
    copied,          \* per blade, the files copied to it by the running/last deploy()
    ran,             \* blades on which the running/last deploy() launched the agent
    effects,         \* number of outward actions performed so far (history)
    calls,           \* number of API calls made so far (history, bounded)
    lastCall,        \* name of the last API call started
    lastResult,      \* how the last finished API call ended
    prepareCompleted,\* history: some prepare() ran to completion
    prepareRaised,   \* history: some prepare() raised part-way
    \* ---- parallel fan-out of a node SSH connection set (private/api_objects.py) ----
    connClass,       \* node class of each connection of the set
    fOp,             \* the running operation: "copy_to" or "run_command"
    fpc,             \* position inside the operation
    fSel,            \* the selected connections, in the order of self.connections
    fIdx,            \* index of the launch loop, then of the wait loop
    proc,            \* per connection: "none", "running" or "exited" subprocess
    exitval,         \* per connection: exit status of its subprocess
    waited,          \* connections whose wait_for_popen() has ended
    errors,          \* the errors list: one entry per wait_for_popen() that raised
    fResult,         \* how the operation ended
    \* ---- one subprocess wait (wait_for_popen / run_cmd) ----
    wKind,           \* which wait loop runs: "wait_for_popen" or "run_cmd"
    wTimeout,        \* the timeout argument: <<>> is None, <<t>> is t seconds
    wCheck,          \* the check argument
    time,            \* the local variable time
    signaled,        \* the local variable signaled
    wProc,           \* the subprocess: "running" or "exited"
    wExit,           \* its exit status
    wIgnoresTerm,    \* the subprocess ignores SIGTERM
    wExitsAlone,     \* the subprocess exits on its own
    termSent,        \* number of SIGTERMs sent
    killSent,        \* SIGKILL was sent
    polls,           \* number of 5-second waits made
    pollsAfterTerm,  \* number of 5-second waits that expired after the first SIGTERM
    wResult,         \* how the wait ended
    \* ---- one node connection (PrivateNodeConnection) ----
    npc,             \* "new", inside _connect ("launch", "probe"), "established",
                     \* "failed" (the constructor raised) or "closed"
    bladeConnection, \* self.blade_connection: "None" or "connection"
    bladeTunnel,     \* the blade's SSH tunnel itself: "none", "open", "closed"
    subprocess,      \* self.subprocess: "None" or "Popen"
    sshProc,         \* the ssh child itself: "none", "running", "exited", "killed"
    locPort,         \* self.loc_port: "None" or "port"
    reconnects,      \* the local variable reconnects
    retries,         \* the local variable retries
    launches,        \* number of ssh port forwards started (history)
    probes,          \* number of refused probes since the last start (history)
    nResult,         \* how _connect ended
    \* ---- the deployment agent on one blade (main) ----
    argc,            \* len(argv)
    apc,             \* where main() is: "start", "networks", "kea_restart",
                     \* "kea_wait", "nodes", "remove", "create", "exited"
    aResult,         \* how the agent ended: "ok", "usage", an exception name
    aExit,           \* the exit status of the agent, -1 while it runs
    cfgNets,         \* the networks in the configuration
    ifNets,          \* node class -> networks named by its interfaces
    hosted,          \* node classes whose host_blade is this blade class
    pureBase,        \* node classes of the plan with pure_base_class true
    nodeCount,       \* node_count of the node classes
    capacity,        \* host_blade.instance_capacity of the node classes
    bladeInstance,   \* int(blade_instance)
    networks,        \* main's list of networks connected to this blade class
    netIdx,          \* position in "for network in networks"
    nodes,           \* main's list of VirtualNode objects
    nodeIdx,         \* position in "for node in nodes"
    alog,            \* what the agent did to the blade, in order (history)
    \* ---- the reconcile of one virtual network (NetworkInstaller) ----
    blade,           \* the blade: its managed links, libvirt network, FDB
    rcfg,            \* the network's configuration
    snap,            \* what NetworkInstaller() read from the blade
    rpc,             \* "new", "ready" (installer constructed), "done"
    runs,            \* number of agent runs so far
    rResult,         \* how each run's construct_virtual_network ended
    firstState,      \* the blade as the first run left it (history)
    \* ---- instance_range over the blades of the hosting blade class ----
    rgCount,         \* node_count of the node class
    rgCapacity,      \* host_blade.instance_capacity of the node class
    rgBlades,        \* number of blades of the hosting blade class
    rgRanges,        \* the (start, end) each blade's agent computed so far
    rgCall,          \* <<>>, or <<instance, what node_host_blade gave for it>>
    \* ---- the MAC and IPv4 addresses of one interface of a node class ----
    mpc,             \* "config", "planned" (prepare done), "built", "failed"
    mNodeCount,      \* node_count of the node class
    mIface,          \* the interface: its layer_2 key and its addr_info blocks
    mConfigured,     \* the MACs configured in addr_info before prepare (history)
    mInstance,       \* the instance the agent builds
    mBuilt,          \* the mac_addr and ipv4_addr the agent put in the context
    \* ---- the networks of the plan and their endpoint_ips ----
    epc,             \* "config", "planned" or "failed" (prepare raised)
    eBladeCount,     \* the provider's blade_count of each blade class
    eNetworks,       \* config['networks'], the host-blade network included
    ePlan,           \* blade_config['networks'] as prepare() left it
    \* ---- the synthesis of the host-blade network ----
    hpc,             \* "config", "planned" or "failed" (prepare raised)
    hPrefixLen,      \* the prefix length of the host-blade CIDR 10.255.0.0/len
    hBladeCount,     \* the provider's blade_count of each blade class
    hNodeCount,      \* node_count of each node class, in configuration order
    hConnected,      \* l3_config['connected_blades'] as synthesized
    hAddresses,      \* per node class, the addresses of its new interface
    hResult,         \* the exception prepare() raised, "none" when it did not
    hInherits,       \* the second node class names the first as its parent
                     \* and leaves node_count to it
    hExpanded,       \* per node class, the node_count and the host-blade
                     \* addresses of the expanded class
    \* ---- the expansion of the node classes and the networks of the plan ----
    xpc,             \* "config", "expanded" (node classes expanded) or "planned"
    xOrder,          \* the order of the node classes in the configuration
    xClasses,        \* the configured node classes
    xNetworks,       \* the configured networks
    xExpanded,       \* the node classes after __expand_node_classes
    xPlanNetworks,   \* blade_config['networks'] as dumped
    \* ---- the choice of the networks the agent serves DHCP4 for ----
    kpc,             \* "start" or "written" (kea-dhcp4.conf written)
    kBladeClass,     \* argv[0]: the blade class of the agent
    kBladeInstance,  \* argv[1]: the blade instance of the agent, a string
    kHost,           \* host_blade.blade_class of each node class
    kIfNets,         \* the networks named by the interfaces of each class
    kDhcp,           \* the dhcp block of each network's AF_INET l3_config
    kSubnet4,        \* Dhcp4.subnet4 of the configuration written
    \* ---- KeaDHCP4.restart_server ----
    kwpc,            \* "start", "polling", "returned" or "raised"
    kwTimeout,       \* the local variable timeout
    kwPolls,         \* polls of is-active that reported not active (history)
    kwActiveAfter,   \* the service is active from this many seconds on
    kwResult,        \* the exception restart_server raised, "none" if none
    \* ---- the FDB mesh of a network (_find_underlay, connect_endpoints) ----
    meshPc,         \* "start", "done" (mesh built) or "failed"
    meshEndpointIps,    \* the network's endpoint_ips
    meshInterfaces,     \* the blade's links in order, each with its local addresses
    meshDevice,         \* what _find_underlay returned: <<>> or <<device, address>>
    meshAppends,        \* the dst of each bridge fdb append issued, in order
    meshResult,         \* "none", "ok" or the exception raised
    \* ---- the netplan entry of one interface of one node instance ----
    npPc,            \* "start", "done" or "failed"
    npMode,          \* mode of the interface's AF_INET addr_info block
    npAddresses,     \* configuration.addresses of that block
    npMacs,          \* configuration.addresses of the AF_PACKET block
    npInstance,      \* the instance number of the node
    npEntry,         \* the entry of the interface under ethernets
    \* ---- the building of one disk (VirtualNode.__make_disk) ----
    dPc,             \* "start", "made" or "failed"
    dConfig,         \* the disk's configuration: each key "unset" (absent),
                     \* "empty" (a false value: '', {}, 0) or "set"
    dCached,         \* the source image file is already on the blade
    dLog,            \* the commands run for the disk, in order
    dResult,         \* "none", "ok", "ConfigurationError" or "CommandError"
    \* ---- the libvirt domains of the nodes of a blade (remove, create) ----
    vPc,             \* "build" (the nodes are constructed), "remove" (first
                     \* loop), "create" (second loop), "ended", or "unbuilt"
                     \* (a constructor raised)
    vWrites,         \* the writes to image files: <<hostname, step, whether
                     \* virsh destroy of the hostname had been run before>>
    vDomains,        \* hostname -> "absent", "inactive", "running", "transient"
    vIdx,            \* position in "for node in nodes"
    vLog,            \* the virsh commands run: <<command, hostname, succeeded>>
    vResult,         \* "none", "ok" or the exception that ended the run
    \* ---- connect_nodes / ssh_connect_nodes and the connection set ----
    nsPc,            \* "start", "connected", "raised", "exited", "exitRaised"
    nsMethod,        \* "connect_nodes" or "ssh_connect_nodes"
    nsClasses,       \* the node classes asked for, in order
    nsCounts,        \* node class -> node_count
    nsOpen,          \* the <<class, instance>> whose tunnel is open
    nsSet            \* the connections of the returned set, in order

clusterVars == <<prepared, cpc, keyIdx, ctxOpen, copied, ran, effects, calls,
                 lastCall, lastResult, prepareCompleted, prepareRaised>>

fanoutVars == <<connClass, fOp, fpc, fSel, fIdx, proc, exitval, waited, errors,
                fResult>>

waitVars == <<wKind, wTimeout, wCheck, time, signaled, wProc, wExit,
              wIgnoresTerm, wExitsAlone, termSent, killSent, polls,
              pollsAfterTerm, wResult>>

connectVars == <<npc, bladeConnection, bladeTunnel, subprocess, sshProc,
                 locPort, reconnects, retries, launches, probes, nResult>>

agentVars == <<argc, apc, aResult, aExit, cfgNets, ifNets, hosted, pureBase, nodeCount,
               capacity, bladeInstance, networks, netIdx, nodes, nodeIdx,
               alog>>

reconcileVars == <<blade, rcfg, snap, rpc, runs, rResult, firstState>>

rangeVars == <<rgCount, rgCapacity, rgBlades, rgRanges, rgCall>>

macVars == <<mpc, mNodeCount, mIface, mConfigured, mInstance, mBuilt>>

endpointsVars == <<epc, eBladeCount, eNetworks, ePlan>>

hostNetVars == <<hpc, hPrefixLen, hBladeCount, hNodeCount, hConnected, hAddresses, hResult, hInherits, hExpanded>>

planVars == <<xpc, xOrder, xClasses, xNetworks, xExpanded, xPlanNetworks>>

keaVars == <<kpc, kBladeClass, kBladeInstance, kHost, kIfNets, kDhcp, kSubnet4>>

restartVars == <<kwpc, kwTimeout, kwPolls, kwActiveAfter, kwResult>>

meshVars == <<meshPc, meshEndpointIps, meshInterfaces, meshDevice, meshAppends, meshResult>>

netplanVars == <<npPc, npMode, npAddresses, npMacs, npInstance, npEntry>>

diskVars == <<dPc, dConfig, dCached, dLog, dResult>>

domainVars == <<vPc, vDomains, vIdx, vLog, vResult, vWrites>>

nodeSetVars == <<nsPc, nsMethod, nsClasses, nsCounts, nsOpen, nsSet>>

vars == <<clusterVars, fanoutVars, waitVars, connectVars, agentVars,
          reconcileVars,
    rangeVars,
    macVars,
    endpointsVars,
    hostNetVars,
    planVars,
    keaVars,
    restartVars,
    meshVars,
    netplanVars,
    diskVars,
    domainVars,
    nodeSetVars>>

\* what an action of one subsystem leaves alone
nonClusterVars == <<fanoutVars, waitVars, connectVars, agentVars,
                    reconcileVars,
    rangeVars,
    macVars,
    endpointsVars,
    hostNetVars,
    planVars,
    keaVars,
    restartVars,
    meshVars,
    netplanVars,
    diskVars,
    domainVars,
    nodeSetVars>>

nonFanoutVars == <<clusterVars, waitVars, connectVars, agentVars,
                   reconcileVars,
    rangeVars,
    macVars,
    endpointsVars,
    hostNetVars,
    planVars,
    keaVars,
    restartVars,
    meshVars,
    netplanVars,
    diskVars,
    domainVars,
    nodeSetVars>>

nonWaitVars == <<clusterVars, fanoutVars, connectVars, agentVars,
                 reconcileVars,
    rangeVars,
    macVars,
    endpointsVars,
    hostNetVars,
    planVars,
    keaVars,
    restartVars,
    meshVars,
    netplanVars,
    diskVars,
    domainVars,
    nodeSetVars>>

nonConnectVars == <<clusterVars, fanoutVars, waitVars, agentVars,
                    reconcileVars,
    rangeVars,
    macVars,
    endpointsVars,
    hostNetVars,
    planVars,
    keaVars,
    restartVars,
    meshVars,
    netplanVars,
    diskVars,
    domainVars,
    nodeSetVars>>

nonAgentVars == <<clusterVars, fanoutVars, waitVars, connectVars,
                  reconcileVars,
    rangeVars,
    macVars,
    endpointsVars,
    hostNetVars,
    planVars,
    keaVars,
    restartVars,
    meshVars,
    netplanVars,
    diskVars,
    domainVars,
    nodeSetVars>>

nonReconcileVars == <<clusterVars, fanoutVars, waitVars, connectVars,
                      agentVars,
    rangeVars,
    macVars,
    endpointsVars,
    hostNetVars,
    planVars,
    keaVars,
    restartVars,
    meshVars,
    netplanVars,
    diskVars,
    domainVars,
    nodeSetVars>>

nonRangeVars == <<clusterVars,
    fanoutVars,
    waitVars,
    connectVars,
    agentVars,
    reconcileVars,
    macVars,
    endpointsVars,
    hostNetVars,
    planVars,
    keaVars,
    restartVars,
    meshVars,
    netplanVars,
    diskVars,
    domainVars,
    nodeSetVars>>

nonMacVars == <<clusterVars,
    fanoutVars,
    waitVars,
    connectVars,
    agentVars,
    reconcileVars,
    rangeVars,
    endpointsVars,
    hostNetVars,
    planVars,
    keaVars,
    restartVars,
    meshVars,
    netplanVars,
    diskVars,
    domainVars,
    nodeSetVars>>

nonEndpointsVars == <<clusterVars,
    fanoutVars,
    waitVars,
    connectVars,
    agentVars,
    reconcileVars,
    rangeVars,
    macVars,
    hostNetVars,
    planVars,
    keaVars,
    restartVars,
    meshVars,
    netplanVars,
    diskVars,
    domainVars,
    nodeSetVars>>

nonHostNetVars == <<clusterVars,
    fanoutVars,
    waitVars,
    connectVars,
    agentVars,
    reconcileVars,
    rangeVars,
    macVars,
    endpointsVars,
    planVars,
    keaVars,
    restartVars,
    meshVars,
    netplanVars,
    diskVars,
    domainVars,
    nodeSetVars>>

nonPlanVars == <<clusterVars,
    fanoutVars,
    waitVars,
    connectVars,
    agentVars,
    reconcileVars,
    rangeVars,
    macVars,
    endpointsVars,
    hostNetVars,
    keaVars,
    restartVars,
    meshVars,
    netplanVars,
    diskVars,
    domainVars,
    nodeSetVars>>

nonKeaVars == <<clusterVars,
    fanoutVars,
    waitVars,
    connectVars,
    agentVars,
    reconcileVars,
    rangeVars,
    macVars,
    endpointsVars,
    hostNetVars,
    planVars,
    restartVars,
    meshVars,
    netplanVars,
    diskVars,
    domainVars,
    nodeSetVars>>

nonRestartVars == <<clusterVars,
    fanoutVars,
    waitVars,
    connectVars,
    agentVars,
    reconcileVars,
    rangeVars,
    macVars,
    endpointsVars,
    hostNetVars,
    planVars,
    keaVars,
    meshVars,
    netplanVars,
    diskVars,
    domainVars,
    nodeSetVars>>

nonMeshVars == <<clusterVars,
    fanoutVars,
    waitVars,
    connectVars,
    agentVars,
    reconcileVars,
    rangeVars,
    macVars,
    endpointsVars,
    hostNetVars,
    planVars,
    keaVars,
    restartVars,
    netplanVars,
    diskVars,
    domainVars,
    nodeSetVars>>

nonNetplanVars == <<clusterVars,
    fanoutVars,
    waitVars,
    connectVars,
    agentVars,
    reconcileVars,
    rangeVars,
    macVars,
    endpointsVars,
    hostNetVars,
    planVars,
    keaVars,
    restartVars,
    meshVars,
    diskVars,
    domainVars,
    nodeSetVars>>

nonDiskVars == <<clusterVars,
    fanoutVars,
    waitVars,
    connectVars,
    agentVars,
    reconcileVars,
    rangeVars,
    macVars,
    endpointsVars,
    hostNetVars,
    planVars,
    keaVars,
    restartVars,
    meshVars,
    netplanVars,
    domainVars,
    nodeSetVars>>

nonDomainVars == <<clusterVars,
    fanoutVars,
    waitVars,
    connectVars,
    agentVars,
    reconcileVars,
    rangeVars,
    macVars,
    endpointsVars,
    hostNetVars,
    planVars,
    keaVars,
    restartVars,
    meshVars,
    netplanVars,
    diskVars,
    nodeSetVars>>

nonNodeSetVars == <<clusterVars,
    fanoutVars,
    waitVars,
    connectVars,
    agentVars,
    reconcileVars,
    rangeVars,
    macVars,
    endpointsVars,
    hostNetVars,
    planVars,
    keaVars,
    restartVars,
    meshVars,
    netplanVars,
    diskVars,
    domainVars>>

-----------------------------------------------------------------------------
(* Bounds of the model *)

\* number of API calls made on one Cluster object in a behaviour
MaxCalls == 4

\* number of connections in a node SSH connection set
MaxConns == 3

\* the timeouts tried are 5, 10, ... 5 * MaxTimeoutQuanta seconds (and None)
MaxTimeoutQuanta == 2

\* number of 5-second waits followed in one subprocess wait
MaxPolls == 5

\* largest number of command-line arguments given to the agent
MaxArgc == 5

\* largest node_count of a node class
MaxNodeCount == 2

\* largest host_blade.instance_capacity of a node class
MaxCapacity == 2

\* largest blade instance number
MaxBladeInstance == 1

\* number of agent runs on one blade
MaxRuns == 2

\* largest node_count given to instance_range
MaxRangeCount == 5

\* largest instance_capacity given to instance_range
MaxRangeCapacity == 3

\* largest number of blades of the hosting blade class
MaxRangeBlades == 3

\* largest node_count of the class whose interface gets MAC addresses
MaxMacNodes == 3

\* largest number of blades of a blade class
MaxBladeCount == 2

\* polls of is-active followed after a restart
MaxKeaPolls == 32

\* largest number of blades of a blade class on the host-blade network
MaxHostBlades == 3

\* largest node_count of a node class on the host-blade network
MaxHostNodes == 4

-----------------------------------------------------------------------------
(***************************************************************************)
(* The Cluster object: prepare / validate / deploy / remove                *)
(***************************************************************************)

\* the Virtual Blades of the provider, in the order of list_connections()
BladeList == <<"b0", "b1">>

Blades == {BladeList[i] : i \in 1..Len(BladeList)}

\* the three things deploy() copies to a blade
AllFiles == {"ssh_keys", "config", "script"}

\* the steps of prepare(), any of which can raise
PrepareSteps == {"get_apis", "add_host_blade_net", "expand_node_classes",
                 "set_node_mac_addresses", "add_endpoint_ips",
                 "add_xml_template", "safe_dump"}

ClusterInit ==
    /\ prepared = FALSE
    /\ cpc = "idle"
    /\ keyIdx = 0
    /\ ctxOpen = FALSE
    /\ copied = [b \in Blades |-> {}]
    /\ ran = {}
    /\ effects = 0
    /\ calls = 0
    /\ lastCall = "none"
    /\ lastResult = "none"
    /\ prepareCompleted = FALSE
    /\ prepareRaised = FALSE

\* value of self.prepared after a prepare() that failed at step `fail`
\* ("none": ran to completion); the assignment is the last statement
PreparedAfterMutant(fail, before) == TRUE

PreparedAfter(fail, before) == IF fail = "none" THEN TRUE ELSE before

\* Cluster.prepare()
Prepare ==
    /\ UNCHANGED nonClusterVars
    /\ cpc = "idle"
    /\ calls < MaxCalls
    /\ \E fail \in PrepareSteps \cup {"none"} :
        /\ prepared' = PreparedAfter(fail, prepared)
        /\ lastResult' = IF fail = "none" THEN "ok" ELSE "raised"
        /\ prepareCompleted' = (prepareCompleted \/ fail = "none")
        /\ prepareRaised' = (prepareRaised \/ fail # "none")
    /\ lastCall' = "prepare"
    /\ calls' = calls + 1
    /\ UNCHANGED <<cpc, keyIdx, ctxOpen, copied, ran, effects>>

\* Cluster.validate()
Validate ==
    /\ UNCHANGED nonClusterVars
    /\ cpc = "idle"
    /\ calls < MaxCalls
    /\ lastCall' = "validate"
    /\ lastResult' = IF ~prepared THEN "ContextualError" ELSE "ok"
    /\ calls' = calls + 1
    /\ UNCHANGED <<prepared, cpc, keyIdx, ctxOpen, copied, ran, effects,
                   prepareCompleted, prepareRaised>>

\* Cluster.remove()
Remove ==
    /\ UNCHANGED nonClusterVars
    /\ cpc = "idle"
    /\ calls < MaxCalls
    /\ lastCall' = "remove"
    /\ lastResult' = IF ~prepared THEN "ContextualError" ELSE "ok"
    /\ calls' = calls + 1
    /\ UNCHANGED <<prepared, cpc, keyIdx, ctxOpen, copied, ran, effects,
                   prepareCompleted, prepareRaised>>

\* the guard at the head of deploy()
DeployRefused(isPrepared) == ~isPrepared

\* Cluster.deploy(), up to entering the ssh_connect_blades() context
DeployCall ==
    /\ UNCHANGED nonClusterVars
    /\ cpc = "idle"
    /\ calls < MaxCalls
    /\ lastCall' = "deploy"
    /\ calls' = calls + 1
    /\ IF DeployRefused(prepared)
       THEN /\ lastResult' = "ContextualError"
            /\ UNCHANGED <<cpc, keyIdx, ctxOpen, copied, ran, effects>>
       ELSE \E entered \in BOOLEAN :
            IF entered
            THEN /\ ctxOpen' = TRUE
                 /\ cpc' = "keys"
                 /\ keyIdx' = 1
                 /\ copied' = [b \in Blades |-> {}]
                 /\ ran' = {}
                 /\ effects' = effects + 1
                 /\ lastResult' = "none"
            ELSE /\ lastResult' = "raised"
                 /\ UNCHANGED <<cpc, keyIdx, ctxOpen, copied, ran, effects>>
    /\ UNCHANGED <<prepared, prepareCompleted, prepareRaised>>

\* where deploy() goes after a fan-out copy step: on to `next` when the copy
\* returned, out of the function when it raised
AfterCopyMutant(raised, next) == next

AfterCopy(raised, next) == IF raised THEN "idle" ELSE next

\* the with statement of deploy(): the context is exited when the body is left
CtxAfter(pcAfter) == pcAfter # "idle"

\* deploy(): the per-connection, blocking copy of the SSH key directory
DeployCopyKeys ==
    /\ UNCHANGED nonClusterVars
    /\ cpc = "keys"
    /\ \E ok \in BOOLEAN :
        LET b == BladeList[keyIdx]
            next == IF keyIdx = Len(BladeList) THEN "config" ELSE "keys"
            pcAfter == AfterCopy(~ok, next)
        IN  /\ copied' = IF ok THEN [copied EXCEPT ![b] = @ \cup {"ssh_keys"}]
                               ELSE copied
            /\ cpc' = pcAfter
            /\ keyIdx' = IF ok /\ next = "keys" THEN keyIdx + 1 ELSE keyIdx
            /\ ctxOpen' = CtxAfter(pcAfter)
            /\ lastResult' = IF ok THEN lastResult ELSE "raised"
    /\ effects' = effects + 1
    /\ UNCHANGED <<prepared, ran, calls, lastCall, prepareCompleted,
                   prepareRaised>>

\* deploy(): a connections.copy_to() of `file` on every blade; the copy
\* reaches the blades outside `failed` and raises when `failed` is not empty
DeployFanoutCopy(stage, file, next) ==
    /\ UNCHANGED nonClusterVars
    /\ cpc = stage
    /\ \E failed \in SUBSET Blades :
        LET pcAfter == AfterCopy(failed # {}, next)
        IN  /\ copied' = [b \in Blades |->
                            IF b \in failed THEN copied[b]
                            ELSE copied[b] \cup {file}]
            /\ cpc' = pcAfter
            /\ ctxOpen' = CtxAfter(pcAfter)
            /\ lastResult' = IF failed = {} THEN lastResult ELSE "raised"
    /\ effects' = effects + 1
    /\ UNCHANGED <<prepared, keyIdx, ran, calls, lastCall, prepareCompleted,
                   prepareRaised>>

DeployCopyConfig == DeployFanoutCopy("config", "config", "script")

DeployCopyScript == DeployFanoutCopy("script", "script", "run")

\* deploy(): connections.run_command() of the agent on every blade
DeployRun ==
    /\ UNCHANGED nonClusterVars
    /\ cpc = "run"
    /\ ran' = Blades
    /\ \E failed \in SUBSET Blades :
        lastResult' = IF failed = {} THEN "ok" ELSE "raised"
    /\ cpc' = "idle"
    /\ ctxOpen' = CtxAfter("idle")
    /\ effects' = effects + 1
    /\ UNCHANGED <<prepared, keyIdx, copied, calls, lastCall,
                   prepareCompleted, prepareRaised>>

ClusterNext ==
    \/ Prepare
    \/ Validate
    \/ Remove
    \/ DeployCall
    \/ DeployCopyKeys
    \/ DeployCopyConfig
    \/ DeployCopyScript
    \/ DeployRun

-----------------------------------------------------------------------------
(***************************************************************************)
(* The subprocess wait loops: wait_for_popen() of the controller and       *)
(* run_cmd() of the blade agent                                            *)
(***************************************************************************)

\* the quantum of subprocess.wait(timeout=5)
PollQuantum == 5

\* exit statuses of a subprocess ended by SIGTERM and by SIGKILL
ExitSigTerm == -15

ExitSigKill == -9

\* timeout arguments: None is <<>>
Timeouts == {<<>>} \cup {<<PollQuantum * k>> : k \in 1..MaxTimeoutQuanta}

\* wait_for_popen(): the except TimeoutExpired branch. Returns the new value
\* of time and what the branch does: "continue", "terminate" (then continue)
\* or "kill" (then raise the timeout ContextualError)
WfpOnTimeout(timeout, t, sig) ==
    LET t2 == IF timeout # <<>> THEN t - PollQuantum ELSE t
    IN  IF timeout # <<>> /\ t2 <= 0
        THEN IF ~sig THEN [time |-> t2, do |-> "terminate"]
                     ELSE [time |-> t2, do |-> "kill"]
        ELSE [time |-> t2, do |-> "continue"]

\* run_cmd(): the except TimeoutExpired branch
RunCmdOnTimeout(timeout, t, sig) ==
    LET t2 == t + PollQuantum
    IN  IF timeout # <<>> /\ timeout[1] # 0 /\ t2 > timeout[1]
        THEN IF ~sig THEN [time |-> t2, do |-> "terminate"]
                     ELSE [time |-> t2, do |-> "kill"]
        ELSE [time |-> t2, do |-> "continue"]

\* the value of signaled after the branch sent SIGTERM: neither loop assigns
\* signaled after its initialisation to False
SignaledAfterTerminate(sig) == sig

\* the initial value of the local variable time
InitialTime(kind, timeout) ==
    IF kind = "wait_for_popen" /\ timeout # <<>> THEN timeout[1] ELSE 0

\* how a wait ends once the subprocess has exited with `status`
WfpEnd(check, status) ==
    IF check /\ status # 0 THEN "ContextualError" ELSE "returned"

WaitIdle ==
    /\ wKind = "wait_for_popen"
    /\ wTimeout = <<>>
    /\ wCheck = TRUE
    /\ time = 0
    /\ signaled = FALSE
    /\ wProc = "running"
    /\ wExit = 0
    /\ wIgnoresTerm = FALSE
    /\ wExitsAlone = FALSE
    /\ termSent = 0
    /\ killSent = FALSE
    /\ polls = 0
    /\ pollsAfterTerm = 0
    /\ wResult = "none"

\* a wait is entered on a running subprocess
WaitInit ==
    /\ wKind \in {"wait_for_popen", "run_cmd"}
    /\ wTimeout \in Timeouts
    /\ wCheck \in BOOLEAN
    /\ time = InitialTime(wKind, wTimeout)
    /\ signaled = FALSE
    /\ wProc = "running"
    /\ wExit = 0
    /\ wIgnoresTerm \in BOOLEAN
    /\ wExitsAlone \in BOOLEAN
    /\ termSent = 0
    /\ killSent = FALSE
    /\ polls = 0
    /\ pollsAfterTerm = 0
    /\ wResult = "none"

\* the subprocess exits on its own
WProcExits ==
    /\ UNCHANGED nonWaitVars
    /\ wResult = "none"
    /\ wProc = "running"
    /\ wExitsAlone
    /\ wProc' = "exited"
    /\ \E status \in {0, 1} : wExit' = status
    /\ UNCHANGED <<wKind, wTimeout, wCheck, time, signaled, wIgnoresTerm,
                   wExitsAlone, termSent, killSent, polls, pollsAfterTerm,
                   wResult>>

\* the subprocess dies of a SIGTERM it does not ignore
WProcTerminated ==
    /\ UNCHANGED nonWaitVars
    /\ wResult = "none"
    /\ wProc = "running"
    /\ termSent > 0
    /\ ~wIgnoresTerm
    /\ wProc' = "exited"
    /\ wExit' = ExitSigTerm
    /\ UNCHANGED <<wKind, wTimeout, wCheck, time, signaled, wIgnoresTerm,
                   wExitsAlone, termSent, killSent, polls, pollsAfterTerm,
                   wResult>>

\* one subprocess.wait(timeout=5) that returns: the subprocess has exited
WaitReturns ==
    /\ UNCHANGED nonWaitVars
    /\ wResult = "none"
    /\ wProc = "exited"
    /\ wResult' = WfpEnd(wCheck, wExit)
    /\ UNCHANGED <<wKind, wTimeout, wCheck, time, signaled, wProc, wExit,
                   wIgnoresTerm, wExitsAlone, termSent, killSent, polls,
                   pollsAfterTerm>>

\* one subprocess.wait(timeout=5) that raises TimeoutExpired
WaitExpires ==
    /\ UNCHANGED nonWaitVars
    /\ wResult = "none"
    /\ wProc = "running"
    /\ polls < MaxPolls
    /\ polls' = polls + 1
    /\ pollsAfterTerm' = IF termSent > 0 THEN pollsAfterTerm + 1
                         ELSE pollsAfterTerm
    /\ LET step == IF wKind = "wait_for_popen"
                   THEN WfpOnTimeout(wTimeout, time, signaled)
                   ELSE RunCmdOnTimeout(wTimeout, time, signaled)
       IN  /\ time' = step.time
           /\ CASE step.do = "continue" ->
                    UNCHANGED <<signaled, termSent, killSent, wProc, wExit,
                                wResult>>
                [] step.do = "terminate" ->
                    /\ termSent' = termSent + 1
                    /\ signaled' = SignaledAfterTerminate(signaled)
                    /\ UNCHANGED <<killSent, wProc, wExit, wResult>>
                [] step.do = "kill" ->
                    /\ killSent' = TRUE
                    /\ wProc' = "exited"
                    /\ wExit' = ExitSigKill
                    /\ wResult' = "timeout"
                    /\ UNCHANGED <<signaled, termSent>>
    /\ UNCHANGED <<wKind, wTimeout, wCheck, wIgnoresTerm, wExitsAlone>>

WaitNext ==
    \/ WProcExits
    \/ WProcTerminated
    \/ WaitReturns
    \/ WaitExpires

-----------------------------------------------------------------------------
(***************************************************************************)
(* PrivateNodeSSHConnectionSet: the parallel copy_to() and run_command()   *)
(***************************************************************************)

Conns == 1..MaxConns

NodeClassNames == {"compute", "storage"}

\* the connections of self.connections, in order, that the node_class
\* argument selects ("None": all of them)
RECURSIVE SelectFrom(_, _, _)
SelectFrom(i, classOf, nodeClass) ==
    IF i > MaxConns THEN <<>>
    ELSE (IF nodeClass = "None" \/ classOf[i] = nodeClass THEN <<i>> ELSE <<>>)
         \o SelectFrom(i + 1, classOf, nodeClass)

SelectConnections(classOf, nodeClass) == SelectFrom(1, classOf, nodeClass)

FanoutIdle ==
    /\ connClass = [c \in Conns |-> "compute"]
    /\ fOp = "none"
    /\ fpc = "idle"
    /\ fSel = <<>>
    /\ fIdx = 0
    /\ proc = [c \in Conns |-> "none"]
    /\ exitval = [c \in Conns |-> 0]
    /\ waited = {}
    /\ errors = <<>>
    /\ fResult = "none"

FanoutInit ==
    /\ connClass \in [Conns -> NodeClassNames]
    /\ fOp = "none"
    /\ fpc = "idle"
    /\ fSel = <<>>
    /\ fIdx = 0
    /\ proc = [c \in Conns |-> "none"]
    /\ exitval = [c \in Conns |-> 0]
    /\ waited = {}
    /\ errors = <<>>
    /\ fResult = "none"

\* copy_to() / run_command() is called: the selection of the list
\* comprehension is fixed
FanoutCall ==
    /\ UNCHANGED nonFanoutVars
    /\ fpc = "idle"
    /\ \E op \in {"copy_to", "run_command"} : fOp' = op
    /\ \E nodeClass \in NodeClassNames \cup {"None"} :
        LET sel == SelectConnections(connClass, nodeClass)
        IN  /\ fSel' = sel
            /\ fpc' = IF sel = <<>> THEN "done" ELSE "launch"
            /\ fResult' = IF sel = <<>> THEN "returned" ELSE "none"
    /\ fIdx' = 1
    /\ UNCHANGED <<connClass, proc, exitval, waited, errors>>

\* what the list comprehension does with a connection: the non-blocking
\* copy_to / run_command returns the Popen object without waiting for it
LaunchBlockingMutant == TRUE

LaunchBlocking == FALSE

\* one element of the list comprehension: node_connection.copy_to(...,
\* blocking=False) or node_connection.run_command(cmd, False, ...)
FanoutLaunch ==
    /\ UNCHANGED nonFanoutVars
    /\ fpc = "launch"
    /\ LET c == fSel[fIdx]
       IN  /\ proc' = [proc EXCEPT ![c] = "running"]
           /\ waited' = IF LaunchBlocking THEN waited \cup {c} ELSE waited
    /\ IF fIdx = Len(fSel)
       THEN fpc' = "wait" /\ fIdx' = 1
       ELSE fpc' = "launch" /\ fIdx' = fIdx + 1
    /\ UNCHANGED <<connClass, fOp, fSel, exitval, errors, fResult>>

\* a launched scp / ssh ends, in any order, with any exit status
ProcExit ==
    /\ UNCHANGED nonFanoutVars
    /\ \E c \in Conns :
        /\ proc[c] = "running"
        /\ proc' = [proc EXCEPT ![c] = "exited"]
        /\ \E status \in {0, 1} : exitval' = [exitval EXCEPT ![c] = status]
    /\ UNCHANGED <<connClass, fOp, fpc, fSel, fIdx, waited, errors, fResult>>

\* the wait loop after a wait_for_popen() that raised: the error is
\* collected and the loop goes on
LoopAfterRaiseMutant(idx, n) == "done"

LoopAfterRaise(idx, n) == IF idx = n THEN "done" ELSE "wait"

\* the 5-second wait of wait_for_popen(*wait_args) on a subprocess that is
\* still running: TimeoutExpired, and with timeout None the loop continues
FanoutWaitExpires ==
    /\ UNCHANGED nonFanoutVars
    /\ fpc = "wait"
    /\ proc[fSel[fIdx]] = "running"
    /\ WfpOnTimeout(<<>>, InitialTime("wait_for_popen", <<>>), FALSE).do
            = "continue"
    /\ UNCHANGED <<connClass, fOp, fpc, fSel, fIdx, proc, exitval, waited,
                   errors, fResult>>

\* wait_for_popen(*wait_args) on the next connection ends; after the last
\* one the errors are raised as one ContextualError
FanoutWait ==
    /\ UNCHANGED nonFanoutVars
    /\ fpc = "wait"
    /\ LET c == fSel[fIdx]
           raised == WfpEnd(TRUE, exitval[c]) = "ContextualError"
           errs == IF raised THEN Append(errors, c) ELSE errors
           pcAfter == IF raised THEN LoopAfterRaise(fIdx, Len(fSel))
                      ELSE IF fIdx = Len(fSel) THEN "done" ELSE "wait"
       IN  /\ proc[c] = "exited"
           /\ waited' = waited \cup {c}
           /\ errors' = errs
           /\ fpc' = pcAfter
           /\ fIdx' = IF pcAfter = "wait" THEN fIdx + 1 ELSE fIdx
           /\ fResult' = IF pcAfter = "done"
                         THEN (IF errs # <<>> THEN "ContextualError"
                               ELSE "returned")
                         ELSE fResult
    /\ UNCHANGED <<connClass, fOp, fSel, proc, exitval>>

FanoutNext ==
    \/ FanoutCall
    \/ FanoutLaunch
    \/ ProcExit
    \/ FanoutWaitExpires
    \/ FanoutWait

-----------------------------------------------------------------------------
(***************************************************************************)
(* PrivateNodeConnection: _connect() and __exit__()                        *)
(***************************************************************************)

\* reconnects = 10: launches of the ssh port forward
Reconnects == 10

\* retries = 60: connection-refused probes per launch
Retries == 60

ConnectIdle ==
    /\ npc = "new"
    /\ bladeConnection = "None"
    /\ bladeTunnel = "none"
    /\ subprocess = "None"
    /\ sshProc = "none"
    /\ locPort = "None"
    /\ reconnects = 0
    /\ retries = 0
    /\ launches = 0
    /\ probes = 0
    /\ nResult = "none"

\* common.node_host_blade_connection(node_class, instance, 22): the SSH
\* tunnel to the blade that hosts the node, open when it is returned
NodeHostBladeConnection == "open"

\* _connect(), up to the reconnect loop
ConnectBegin ==
    /\ UNCHANGED nonConnectVars
    /\ npc = "new"
    /\ bladeConnection' = "connection"
    /\ bladeTunnel' = NodeHostBladeConnection
    /\ reconnects' = Reconnects
    /\ npc' = "launch"
    /\ UNCHANGED <<subprocess, sshProc, locPort, retries, launches, probes,
                   nResult>>

\* one pass of the reconnect loop, up to the probe loop: a free port is
\* picked and the ssh port forward is started
ConnectLaunch ==
    /\ UNCHANGED nonConnectVars
    /\ npc = "launch"
    /\ reconnects > 0
    /\ locPort' = "port"
    /\ subprocess' = "Popen"
    /\ sshProc' = "running"
    /\ launches' = launches + 1
    /\ retries' = Retries
    /\ probes' = 0
    /\ npc' = "probe"
    /\ UNCHANGED <<bladeConnection, bladeTunnel, reconnects, nResult>>

\* the ssh port forward ends by itself
SshExits ==
    /\ UNCHANGED nonConnectVars
    /\ sshProc = "running"
    /\ sshProc' = "exited"
    /\ UNCHANGED <<npc, bladeConnection, bladeTunnel, subprocess, locPort,
                   reconnects, retries, launches, probes, nResult>>

\* PrivateNodeConnection.__exit__(): the blade tunnel after it
ExitBladeTunnel(attr, tunnel) == IF attr # "None" THEN "closed" ELSE tunnel

\* PrivateNodeConnection.__exit__(): the ssh child after it
ExitSshProc(attr, child) ==
    IF attr # "None" /\ child = "running" THEN "killed" ELSE child

\* the end of one pass of the reconnect loop (lines 335-343): what it does
\* to the blade tunnel: nothing
AfterPassBladeTunnel(tunnel) == tunnel

\* the code after the probe loop: the pass is given up
ConnectGiveUpPass ==
    /\ reconnects' = reconnects - 1
    /\ sshProc' = IF sshProc = "running" THEN "killed" ELSE sshProc
    /\ subprocess' = "None"
    /\ locPort' = "None"
    /\ bladeTunnel' = AfterPassBladeTunnel(bladeTunnel)
    /\ npc' = "launch"
    /\ UNCHANGED <<bladeConnection, launches, nResult>>

\* one pass of the probe loop: poll the ssh child, then try to connect to
\* the forwarded port
ConnectProbe ==
    /\ UNCHANGED nonConnectVars
    /\ npc = "probe"
    /\ IF sshProc = "exited"
       THEN \* exit_status is not None: break
            /\ ConnectGiveUpPass
            /\ UNCHANGED <<retries, probes>>
       ELSE \E outcome \in {"connected", "refused", "error"} :
            CASE outcome = "connected" ->
                    /\ npc' = "established"
                    /\ nResult' = "returned"
                    /\ UNCHANGED <<bladeConnection, bladeTunnel, subprocess,
                                   sshProc, locPort, reconnects, retries,
                                   launches, probes>>
              [] outcome = "refused" ->
                    /\ retries' = retries - 1
                    /\ probes' = probes + 1
                    /\ IF retries - 1 > 0
                       THEN UNCHANGED <<npc, bladeConnection, bladeTunnel,
                                        subprocess, sshProc, locPort,
                                        reconnects, launches, nResult>>
                       ELSE ConnectGiveUpPass
              [] outcome = "error" ->
                    \* self.__exit__(...), then raise ContextualError
                    /\ bladeTunnel' = ExitBladeTunnel(bladeConnection,
                                                      bladeTunnel)
                    /\ bladeConnection' = "None"
                    /\ sshProc' = ExitSshProc(subprocess, sshProc)
                    /\ subprocess' = "None"
                    /\ npc' = "failed"
                    /\ nResult' = "ContextualError"
                    /\ UNCHANGED <<locPort, reconnects, retries, launches,
                                   probes>>

\* "... (local port = %d, ..." % (..., self.loc_port, ...): %d of None
\* raises TypeError before the ContextualError is constructed
ExhaustedRaises(port) ==
    IF port = "None" THEN "TypeError" ELSE "ContextualError"

\* the reconnect loop has ended without a connection: the final raise
ConnectExhausted ==
    /\ UNCHANGED nonConnectVars
    /\ npc = "launch"
    /\ reconnects = 0
    /\ npc' = "failed"
    /\ nResult' = ExhaustedRaises(locPort)
    /\ UNCHANGED <<bladeConnection, bladeTunnel, subprocess, sshProc, locPort,
                   reconnects, retries, launches, probes>>

\* the close operation, __exit__(), on an established or closed connection
ConnectionClose ==
    /\ UNCHANGED nonConnectVars
    /\ npc \in {"established", "closed"}
    /\ bladeTunnel' = ExitBladeTunnel(bladeConnection, bladeTunnel)
    /\ bladeConnection' = "None"
    /\ sshProc' = ExitSshProc(subprocess, sshProc)
    /\ subprocess' = "None"
    /\ npc' = "closed"
    /\ UNCHANGED <<locPort, reconnects, retries, launches, probes, nResult>>

ConnectNext ==
    \/ ConnectBegin
    \/ ConnectLaunch
    \/ SshExits
    \/ ConnectProbe
    \/ ConnectExhausted
    \/ ConnectionClose

-----------------------------------------------------------------------------
(***************************************************************************)
(* The deployment agent on one blade: main() of deploy_cluster_to_blade.py *)
(***************************************************************************)

\* the arguments of the agent in the command line deploy() composes:
\* blade_class, instance, blade_cluster_config.yaml, /root/ssh_keys
DeployArgc == 4

\* the argument count main() accepts (len(argv) < 3, len(argv) > 3)
MainArgc == 3

NetOrder == <<"n1", "n2">>

NetNames == {NetOrder[i] : i \in 1..Len(NetOrder)}

ClassOrder == <<"compute", "storage">>

ClassNames == {ClassOrder[i] : i \in 1..Len(ClassOrder)}

AgentIdle ==
    /\ argc = MainArgc
    /\ apc = "start"
    /\ aResult = "none"
    /\ aExit = -1
    /\ cfgNets = {}
    /\ ifNets = [c \in ClassNames |-> {}]
    /\ hosted = {}
    /\ pureBase = {}
    /\ nodeCount = 0
    /\ capacity = 1
    /\ bladeInstance = 0
    /\ networks = <<>>
    /\ netIdx = 1
    /\ nodes = <<>>
    /\ nodeIdx = 1
    /\ alog = <<>>

\* the agent is started with some number of arguments
AgentInit ==
    /\ argc \in 0..MaxArgc
    /\ apc = "start"
    /\ aResult = "none"
    /\ aExit = -1
    /\ cfgNets = {}
    /\ ifNets = [c \in ClassNames |-> {}]
    /\ hosted = {}
    /\ pureBase = {}
    /\ nodeCount = 0
    /\ capacity = 1
    /\ bladeInstance = 0
    /\ networks = <<>>
    /\ netIdx = 1
    /\ nodes = <<>>
    /\ nodeIdx = 1
    /\ alog = <<>>

\* main(): the three checks of len(argv) that raise UsageError
ArgsRefused(n) == n = 0 \/ n < MainArgc \/ n > MainArgc

\* network_connected(): the network is named by an interface of one of the
\* node classes hosted on this blade class
NetworkConnected(n, classes, ifn) == \E c \in classes : n \in ifn[c]

RECURSIVE FilterSeq(_, _)
FilterSeq(s, keep) ==
    IF s = <<>> THEN <<>>
    ELSE IF Head(s) \in keep
         THEN <<Head(s)>> \o FilterSeq(Tail(s), keep)
         ELSE FilterSeq(Tail(s), keep)

\* main(): the networks of the configuration connected to this blade class
NetworksInScope(cfg, classes, ifn) ==
    FilterSeq(NetOrder, {n \in cfg : NetworkConnected(n, classes, ifn)})

Min(a, b) == IF a < b THEN a ELSE b

\* instance_range(): (start, end) of the node instances on this blade
instance_range(node_count, cap, blade_instance) ==
    <<Min(blade_instance * cap, node_count),
      Min(blade_instance * cap + cap, node_count)>>

\* range(*instance_range(...)) for one node class, as (class, instance) pairs
NodesOfClass(c, node_count, cap, blade_instance) ==
    LET r == instance_range(node_count, cap, blade_instance)
    IN  IF r[2] > r[1]
        THEN [i \in 1..(r[2] - r[1]) |-> <<c, r[1] + i - 1>>]
        ELSE <<>>

RECURSIVE NodeListFrom(_, _, _, _)
NodeListFrom(classes, node_count, cap, blade_instance) ==
    IF classes = <<>> THEN <<>>
    ELSE NodesOfClass(Head(classes), node_count, cap, blade_instance)
         \o NodeListFrom(Tail(classes), node_count, cap, blade_instance)

\* main(): the list of VirtualNode objects, node classes in configuration
\* order, instances in range order
NodeList(classes, node_count, cap, blade_instance) ==
    NodeListFrom(FilterSeq(ClassOrder, classes), node_count, cap,
                 blade_instance)

\* PrivateVirtualNodes.node_classes(): the node classes the controller's
\* query API hands out
ApiNodeClasses(pure) == {c \in ClassNames : c \notin pure}

NodeBuildRaisesMutant(nl, ifn, scope) == FALSE

\* VirtualNode.__make_network_interfaces():
\* self.networks[interface['cluster_network']] raises KeyError when an
\* interface names a network that is not among the node's connected networks
NodeBuildRaises(nl, ifn, scope) ==
    \E k \in 1..Len(nl) : \E n \in ifn[nl[k][1]] :
        \A i \in 1..Len(scope) : scope[i] # n

\* the agent ends: entrypoint() reports a ContextualError and exits 1,
\* usage() exits 1, another exception ends the interpreter with status 1
AgentEnds(result) ==
    /\ apc' = "exited"
    /\ aResult' = result
    /\ aExit' = IF result = "ok" THEN 0 ELSE 1

\* main(), from the argument checks to the first network: read_config,
\* NetworkInstaller(), remove_virtual_network("default"), the filters
AgentMain ==
    /\ UNCHANGED nonAgentVars
    /\ apc = "start"
    /\ IF ArgsRefused(argc)
       THEN /\ AgentEnds("usage")
            /\ UNCHANGED <<argc, cfgNets, ifNets, hosted, pureBase, nodeCount, capacity,
                           bladeInstance, networks, netIdx, nodes, nodeIdx,
                           alog>>
       ELSE \E cfg \in SUBSET NetNames, ifn \in [ClassNames -> SUBSET NetNames],
               hb \in SUBSET ClassNames, pb \in SUBSET ClassNames, nc \in 0..MaxNodeCount,
               cap \in 1..MaxCapacity, bi \in 0..MaxBladeInstance,
               ok \in BOOLEAN :
            IF ok
            THEN /\ cfgNets' = cfg
                 /\ ifNets' = ifn
                 /\ hosted' = hb
                 /\ pureBase' = pb
                 /\ nodeCount' = nc
                 /\ capacity' = cap
                 /\ bladeInstance' = bi
                 /\ networks' = NetworksInScope(cfg, hb, ifn)
                 /\ netIdx' = 1
                 /\ apc' = "networks"
                 /\ UNCHANGED <<argc, aResult, aExit, nodes, nodeIdx, alog>>
            ELSE /\ AgentEnds("ContextualError")
                 /\ UNCHANGED <<argc, cfgNets, ifNets, hosted, pureBase, nodeCount,
                                capacity, bladeInstance, networks, netIdx,
                                nodes, nodeIdx, alog>>

\* one pass of "for network in networks": construct_virtual_network
AgentConstructNetwork ==
    /\ UNCHANGED nonAgentVars
    /\ apc = "networks"
    /\ netIdx <= Len(networks)
    /\ \E ok \in BOOLEAN :
        IF ok
        THEN /\ alog' = Append(alog, <<"net", networks[netIdx]>>)
             /\ netIdx' = netIdx + 1
             /\ UNCHANGED <<apc, aResult, aExit>>
        ELSE /\ AgentEnds("ContextualError")
             /\ UNCHANGED <<netIdx, alog>>
    /\ UNCHANGED <<argc, cfgNets, ifNets, hosted, pureBase, nodeCount, capacity,
                   bladeInstance, networks, nodes, nodeIdx>>

\* KeaDHCP4(...) and write_config("/etc/kea/kea-dhcp4.conf")
AgentKeaWrite ==
    /\ UNCHANGED nonAgentVars
    /\ apc = "networks"
    /\ netIdx > Len(networks)
    /\ \E ok \in BOOLEAN :
        IF ok
        THEN /\ alog' = Append(alog, <<"kea_write", "">>)
             /\ apc' = "kea_restart"
             /\ UNCHANGED <<aResult, aExit>>
        ELSE /\ AgentEnds("ContextualError")
             /\ UNCHANGED alog
    /\ UNCHANGED <<argc, cfgNets, ifNets, hosted, pureBase, nodeCount, capacity,
                   bladeInstance, networks, netIdx, nodes, nodeIdx>>

\* restart_server(): systemctl restart kea-dhcp4-server
AgentKeaRestart ==
    /\ UNCHANGED nonAgentVars
    /\ apc = "kea_restart"
    /\ \E ok \in BOOLEAN :
        IF ok
        THEN /\ alog' = Append(alog, <<"kea_restart", "">>)
             /\ apc' = "kea_wait"
             /\ UNCHANGED <<aResult, aExit>>
        ELSE /\ AgentEnds("ContextualError")
             /\ UNCHANGED alog
    /\ UNCHANGED <<argc, cfgNets, ifNets, hosted, pureBase, nodeCount, capacity,
                   bladeInstance, networks, netIdx, nodes, nodeIdx>>

\* restart_server(): one pass of the loop that polls systemctl is-active;
\* the loop variable timeout is not changed by the loop
AgentKeaPoll ==
    /\ UNCHANGED nonAgentVars
    /\ apc = "kea_wait"
    /\ \E active \in BOOLEAN :
        apc' = IF active THEN "nodes" ELSE apc
    /\ UNCHANGED <<argc, aResult, aExit, cfgNets, ifNets, hosted, pureBase, nodeCount,
                   capacity, bladeInstance, networks, netIdx, nodes, nodeIdx,
                   alog>>

\* the list comprehension that constructs every VirtualNode
AgentBuildNodes ==
    /\ UNCHANGED nonAgentVars
    /\ apc = "nodes"
    /\ LET nl == NodeList(hosted, nodeCount, capacity, bladeInstance)
       IN  IF NodeBuildRaises(nl, ifNets, networks)
           THEN /\ AgentEnds("KeyError")
                /\ UNCHANGED <<nodes, nodeIdx>>
           ELSE \E ok \in BOOLEAN :
                IF ~ok
                THEN /\ AgentEnds("ContextualError")
                     /\ UNCHANGED <<nodes, nodeIdx>>
                ELSE /\ nodes' = nl
                     /\ nodeIdx' = 1
                     /\ IF nl = <<>>
                        THEN AgentEnds("ok")
                        ELSE /\ apc' = "remove"
                             /\ UNCHANGED <<aResult, aExit>>
    /\ UNCHANGED <<argc, cfgNets, ifNets, hosted, pureBase, nodeCount, capacity,
                   bladeInstance, networks, netIdx, alog>>

\* one pass of the first "for node in nodes": node.remove(), that is
\* virsh destroy and virsh undefine, both with check=False
AgentRemoveNode ==
    /\ UNCHANGED nonAgentVars
    /\ apc = "remove"
    /\ alog' = Append(alog, <<"remove", nodes[nodeIdx]>>)
    /\ IF nodeIdx = Len(nodes)
       THEN /\ apc' = "create"
            /\ nodeIdx' = 1
       ELSE /\ nodeIdx' = nodeIdx + 1
            /\ UNCHANGED apc
    /\ UNCHANGED <<argc, aResult, aExit, cfgNets, ifNets, hosted, pureBase, nodeCount,
                   capacity, bladeInstance, networks, netIdx, nodes>>

\* one pass of the second "for node in nodes": node.create(), that is
\* virsh define and then virsh start
AgentCreateNode ==
    /\ UNCHANGED nonAgentVars
    /\ apc = "create"
    /\ \E outcome \in {"ok", "define_failed", "start_failed"} :
        CASE outcome = "ok" ->
                /\ alog' = alog \o <<<<"define", nodes[nodeIdx]>>,
                                     <<"start", nodes[nodeIdx]>>>>
                /\ IF nodeIdx = Len(nodes)
                   THEN /\ AgentEnds("ok")
                        /\ UNCHANGED nodeIdx
                   ELSE /\ nodeIdx' = nodeIdx + 1
                        /\ UNCHANGED <<apc, aResult, aExit>>
          [] outcome = "define_failed" ->
                /\ AgentEnds("ContextualError")
                /\ UNCHANGED <<alog, nodeIdx>>
          [] outcome = "start_failed" ->
                /\ alog' = Append(alog, <<"define", nodes[nodeIdx]>>)
                /\ AgentEnds("ContextualError")
                /\ UNCHANGED nodeIdx
    /\ UNCHANGED <<argc, cfgNets, ifNets, hosted, pureBase, nodeCount, capacity,
                   bladeInstance, networks, netIdx, nodes>>

AgentNext ==
    \/ AgentMain
    \/ AgentConstructNetwork
    \/ AgentKeaWrite
    \/ AgentKeaRestart
    \/ AgentKeaPoll
    \/ AgentBuildNodes
    \/ AgentRemoveNode
    \/ AgentCreateNode

-----------------------------------------------------------------------------
(***************************************************************************)
(* NetworkInstaller: the reconcile of one virtual network on one blade     *)
(***************************************************************************)

\* the link names under management for the network: tunnel_name,
\* bridge_name, blade_peer_name, blade_ifname
Links == {"tunnel", "bridge", "peer", "ifname"}

\* the remote tunnel endpoints of the network, in endpoint_ips order
RemoteIps == <<"ip2", "ip3">>

NoLink == [kind |-> "absent", master |-> "none", up |-> FALSE, addr |-> FALSE]

NewLink(kind) == [kind |-> kind, master |-> "none", up |-> FALSE,
                  addr |-> FALSE]

\* the other end of a veth pair
VethPeer(x) == IF x = "peer" THEN "ifname" ELSE "peer"

\* a command failed: run_cmd raises ContextualError, the rest is skipped
Failed(st) == [st EXCEPT !.ok = FALSE]

\* ip link del x
LinkDel(st, x) ==
    IF ~st.ok THEN st
    ELSE IF st.lnk[x].kind = "absent" THEN Failed(st)
    ELSE [st EXCEPT
            !.lnk = [y \in Links |->
                IF y = x THEN NoLink
                ELSE IF st.lnk[x].kind = "veth" /\ st.lnk[y].kind = "veth"
                        /\ y = VethPeer(x) THEN NoLink
                ELSE IF st.lnk[y].master = x
                     THEN [st.lnk[y] EXCEPT !.master = "none"]
                     ELSE st.lnk[y]],
            !.fdb = IF x = "tunnel" THEN {} ELSE @]

\* ip link add x type kind
LinkAdd(st, x, kind) ==
    IF ~st.ok THEN st
    ELSE IF st.lnk[x].kind # "absent" THEN Failed(st)
    ELSE [st EXCEPT !.lnk[x] = NewLink(kind)]

\* ip link add a type veth peer name b
LinkAddVeth(st, a, b) ==
    IF ~st.ok THEN st
    ELSE IF st.lnk[a].kind # "absent" \/ st.lnk[b].kind # "absent"
         THEN Failed(st)
    ELSE [st EXCEPT !.lnk[a] = NewLink("veth"), !.lnk[b] = NewLink("veth")]

\* ip link set x master m
LinkSetMaster(st, x, m) ==
    IF ~st.ok THEN st
    ELSE IF st.lnk[x].kind = "absent" \/ st.lnk[m].kind # "bridge"
         THEN Failed(st)
    ELSE [st EXCEPT !.lnk[x].master = m]

\* ip link set x up
LinkSetUp(st, x) ==
    IF ~st.ok THEN st
    ELSE IF st.lnk[x].kind = "absent" THEN Failed(st)
    ELSE [st EXCEPT !.lnk[x].up = TRUE]

\* ip addr add blade_cidr dev x
AddrAdd(st, x) ==
    IF ~st.ok THEN st
    ELSE IF st.lnk[x].kind = "absent" THEN Failed(st)
    ELSE [st EXCEPT !.lnk[x].addr = TRUE]

\* bridge fdb append to 00:00:00:00:00:00 dst ip dev tunnel_name
FdbAppend(st, ip) ==
    IF ~st.ok THEN st
    ELSE IF st.lnk["tunnel"].kind # "vxlan" THEN Failed(st)
    ELSE [st EXCEPT !.fdb = @ \cup {ip}]

\* virsh net-destroy
NetDestroy(st) ==
    IF ~st.ok THEN st
    ELSE IF st.vnet = "active" THEN [st EXCEPT !.vnet = "inactive"]
    ELSE IF st.vnet = "transient"
         THEN [st EXCEPT !.vnet = "absent", !.auto = FALSE]
    ELSE Failed(st)

\* virsh net-undefine
NetUndefine(st) ==
    IF ~st.ok THEN st
    ELSE IF st.vnet = "inactive"
         THEN [st EXCEPT !.vnet = "absent", !.auto = FALSE]
    ELSE IF st.vnet = "active" THEN [st EXCEPT !.vnet = "transient",
                                               !.auto = FALSE]
    ELSE Failed(st)

\* virsh net-define
NetDefine(st) ==
    IF ~st.ok THEN st
    ELSE IF st.vnet = "absent"
         THEN [st EXCEPT !.vnet = "inactive", !.auto = FALSE]
    ELSE Failed(st)

\* virsh net-start
NetStart(st) ==
    IF ~st.ok THEN st
    ELSE IF st.vnet = "inactive" THEN [st EXCEPT !.vnet = "active"]
    ELSE Failed(st)

\* virsh net-autostart
NetAutostart(st) ==
    IF ~st.ok THEN st
    ELSE IF st.vnet \in {"inactive", "active"} THEN [st EXCEPT !.auto = TRUE]
    ELSE Failed(st)

\* NetworkInstaller.__init__: what the installer reads from the blade
Snapshot(b) ==
    [interfaces |-> {x \in Links : b.lnk[x].kind # "absent"},
     vxlans     |-> {x \in Links : b.lnk[x].kind = "vxlan"},
     bridges    |-> {x \in Links : b.lnk[x].kind = "bridge"},
     \* virsh net-list --name lists the active networks
     vnets      |-> b.vnet \in {"active", "transient"}]

\* _check_conflict raises
CheckConflict(sn) ==
    \/ "tunnel" \in sn.interfaces /\ "tunnel" \notin sn.vxlans
    \/ "bridge" \in sn.interfaces /\ "bridge" \notin sn.bridges

\* construct_virtual_network: the removal of what the snapshot holds
RemoveOld(st, sn, cfg) ==
    LET s1 == IF "tunnel" \in sn.interfaces THEN LinkDel(st, "tunnel") ELSE st
        s2 == IF "bridge" \in sn.interfaces THEN LinkDel(s1, "bridge") ELSE s1
    IN  IF cfg.local /\ "peer" \in sn.interfaces
        THEN LinkDel(s2, "peer") ELSE s2

\* _find_underlay: raises when no interface has one of the endpoint IPs
FindUnderlay(st, cfg) ==
    IF ~st.ok \/ cfg.underlay THEN st ELSE Failed(st)

add_new_tunnel(st) ==
    LinkSetUp(LinkSetUp(LinkSetMaster(LinkAdd(LinkAdd(st, "tunnel", "vxlan"),
                                              "bridge", "bridge"),
                                      "tunnel", "bridge"),
                        "bridge"),
              "tunnel")

RECURSIVE FdbAppendAll(_, _)
FdbAppendAll(st, ips) ==
    IF ips = <<>> THEN st
    ELSE FdbAppendAll(FdbAppend(st, Head(ips)), Tail(ips))

connect_endpoints(st) == FdbAppendAll(st, RemoteIps)

add_blade_interface(st, cfg) ==
    IF ~cfg.local THEN st
    ELSE LET s == LinkSetUp(LinkSetUp(LinkSetMaster(
                      LinkAddVeth(st, "ifname", "peer"), "peer", "bridge"),
                      "peer"), "ifname")
         IN  IF cfg.cidr THEN AddrAdd(s, "ifname") ELSE s

remove_virtual_networkMutant(st, sn) == st

remove_virtual_network(st, sn) ==
    IF ~sn.vnets THEN st ELSE NetUndefine(NetDestroy(st))

add_virtual_network(st) == NetAutostart(NetStart(NetDefine(st)))

\* construct_virtual_network on the blade state st with the installer's
\* snapshot sn and the network's configuration cfg
construct_virtual_network(st, sn, cfg) ==
    IF CheckConflict(sn) THEN Failed(st)
    ELSE add_virtual_network(
           remove_virtual_network(
             add_blade_interface(
               connect_endpoints(
                 add_new_tunnel(
                   FindUnderlay(RemoveOld(st, sn, cfg), cfg))),
               cfg),
             sn))

\* the states a blade can be in before a run: each managed link present or
\* absent, of the managed kind or of another kind
BladeStates ==
    {[lnk |-> [x \in Links |->
                 CASE x = "tunnel" -> t
                   [] x = "bridge" -> b
                   [] x = "peer" -> v[1]
                   [] x = "ifname" -> v[2]],
      vnet |-> n[1], auto |-> n[2], fdb |-> f, ok |-> TRUE] :
        t \in {NoLink, NewLink("other"), NewLink("vxlan"),
               [NewLink("vxlan") EXCEPT !.master = "bridge", !.up = TRUE]},
        b \in {NoLink, NewLink("other"),
               [NewLink("bridge") EXCEPT !.up = TRUE]},
        v \in {<<NoLink, NoLink>>,
               <<[NewLink("veth") EXCEPT !.master = "bridge", !.up = TRUE],
                 [NewLink("veth") EXCEPT !.up = TRUE, !.addr = TRUE]>>,
               <<NoLink, NewLink("other")>>},
        n \in {<<"absent", FALSE>>, <<"inactive", FALSE>>,
               <<"inactive", TRUE>>, <<"active", FALSE>>, <<"active", TRUE>>,
               <<"transient", FALSE>>},
        f \in {{}, {"ip2", "ip3"}}}

\* a link enslaved to the bridge needs the bridge; FDB entries need a vxlan
ConsistentBlade(b) ==
    /\ \A x \in Links : b.lnk[x].master = "bridge" =>
            b.lnk["bridge"].kind = "bridge"
    /\ b.fdb # {} => b.lnk["tunnel"].kind = "vxlan"

NetworkConfigs == [local : BOOLEAN, cidr : BOOLEAN, underlay : BOOLEAN]

ReconcileIdle ==
    /\ blade = [lnk |-> [x \in Links |-> NoLink], vnet |-> "absent",
                auto |-> FALSE, fdb |-> {}, ok |-> TRUE]
    /\ rcfg = [local |-> FALSE, cidr |-> FALSE, underlay |-> FALSE]
    /\ snap = Snapshot(blade)
    /\ rpc = "new"
    /\ runs = 0
    /\ rResult = <<>>
    /\ firstState = blade

ReconcileInit ==
    /\ blade \in {b \in BladeStates : ConsistentBlade(b)}
    /\ rcfg \in {c \in NetworkConfigs : c.cidr => c.local}
    /\ snap = Snapshot(blade)
    /\ rpc = "new"
    /\ runs = 0
    /\ rResult = <<>>
    /\ firstState = blade

\* an agent run starts: NetworkInstaller()
InstallerInit ==
    /\ UNCHANGED nonReconcileVars
    /\ rpc \in {"new", "done"}
    /\ runs < MaxRuns
    /\ snap' = Snapshot(blade)
    /\ rpc' = "ready"
    /\ UNCHANGED <<blade, rcfg, runs, rResult, firstState>>

\* the agent run reconciles the network: construct_virtual_network
ConstructVirtualNetwork ==
    /\ UNCHANGED nonReconcileVars
    /\ rpc = "ready"
    /\ LET res == construct_virtual_network(blade, snap, rcfg)
       IN  /\ blade' = [res EXCEPT !.ok = TRUE]
           /\ rResult' = Append(rResult,
                                IF res.ok THEN "ok" ELSE "ContextualError")
           /\ firstState' = IF runs = 0 THEN [res EXCEPT !.ok = TRUE]
                            ELSE firstState
    /\ runs' = runs + 1
    /\ rpc' = "done"
    /\ UNCHANGED <<rcfg, snap>>

ReconcileNext ==
    \/ InstallerInit
    \/ ConstructVirtualNetwork

-----------------------------------------------------------------------------
(***************************************************************************)
(* instance_range on every blade of the hosting blade class                *)
(***************************************************************************)

RangeIdle ==
    /\ rgCount = 0
    /\ rgCapacity = 1
    /\ rgBlades = 1
    /\ rgRanges = <<>>
    /\ rgCall = <<>>

RangeInit ==
    /\ rgCount \in 0..MaxRangeCount
    /\ rgCapacity \in 1..MaxRangeCapacity
    /\ rgBlades \in 1..MaxRangeBlades
    /\ rgRanges = <<>>
    /\ rgCall = <<>>

\* the agent of the next blade instance (numbered from 0) computes
\* instance_range(node_class, int(blade_instance))
RangeOnBlade ==
    /\ UNCHANGED nonRangeVars
    /\ Len(rgRanges) < rgBlades
    /\ rgRanges' = Append(rgRanges,
                          instance_range(rgCount, rgCapacity, Len(rgRanges)))
    /\ UNCHANGED <<rgCount, rgCapacity, rgBlades, rgCall>>

\* Common.node_host_blade(node_type, instance).  host_blade_class is what
\* __host_blade_class returned: the value of host_blade.blade_class, the
\* name of the blade class, a str.  The next statement calls .get on it,
\* and a str has no attribute get: the call raises before the division
\* (which is /, the true division) is reached.
node_host_blade(host_blade_class, instance, instance_capacity) ==
    IF instance < 0 THEN <<"ContextualError">>
    ELSE IF host_blade_class \in STRING THEN <<"AttributeError">>
    ELSE <<"returned", host_blade_class, instance \div instance_capacity>>

\* a caller asks for the blade hosting one of the node instances
RangeHostBlade ==
    /\ UNCHANGED nonRangeVars
    /\ rgCall = <<>>
    /\ \E instance \in 0..(rgCount - 1) :
          rgCall' = <<instance,
                      node_host_blade("blade", instance, rgCapacity)>>
    /\ UNCHANGED <<rgCount, rgCapacity, rgBlades, rgRanges>>

RangeNext ==
    \/ RangeOnBlade
    \/ RangeHostBlade

-----------------------------------------------------------------------------
(***************************************************************************)
(* MAC and IPv4 addresses of an interface: Cluster.__add_mac_addresses,    *)
(* and what VirtualNode.__make_network_interface reads from the plan       *)
(***************************************************************************)

HexDigits == <<"0", "1", "2", "3", "4", "5", "6", "7", "8", "9",
               "a", "b", "c", "d", "e", "f">>

\* "%2.2x" % octet
Hex2(n) == HexDigits[(n \div 16) + 1] \o HexDigits[(n % 16) + 1]

\* int(octet, base=16) for the octets of the default prefix "52:54:00"
PrefixOctets == <<82, 84, 0>>

\* the values randint(0x00, 0xff) is followed for
OctetSamples == {9, 171}

\* __random_mac(): the MACs it can return, each as its six colon-separated
\* fields
RandomMacs ==
    {[i \in 1..6 |-> Hex2((PrefixOctets \o r)[i])] :
        r \in [1..(6 - Len(PrefixOctets)) -> OctetSamples]}

\* MACs found in a configuration, as their six fields
ExistingMacs == << <<"02", "00", "00", "00", "00", "01">>,
                   <<"02", "00", "00", "00", "00", "02">> >>

\* the static addresses __add_host_blade_net gives the instances of a class
StaticIps(n) == [i \in 1..n |-> <<"ip", i - 1>>]

\* a block of an interface: its family, its 'addresses' list and its
\* 'configuration.addresses' list
Block(family, addresses, conf) ==
    [family |-> family, addresses |-> addresses, configuration |-> conf]

Prefix(s, n) == SubSeq(s, 1, Min(n, Len(s)))

\* the interfaces a configuration can hold: an optional 'layer_2' key, an
\* optional addr_info.layer_2 block, and the addr_info.ipv4 block
MacInterfaces(n) ==
    {[layer_2 |-> top,
      addr_info |-> [layer_2 |-> ai,
                     ipv4 |-> <<Block("AF_INET", StaticIps(n), <<>>)>>]] :
        top \in {<<>>} \cup
                {<<Block("AF_PACKET", Prefix(ExistingMacs, k), c)>> :
                    k \in 0..Len(ExistingMacs),
                    c \in {<<>>, Prefix(ExistingMacs, 1)}},
        ai \in {<<>>} \cup
               {<<Block("AF_PACKET", Prefix(ExistingMacs, k), <<>>)>> :
                    k \in 0..Len(ExistingMacs)}}

MacIdle ==
    /\ mpc = "config"
    /\ mNodeCount = 0
    /\ mIface = [layer_2 |-> <<>>,
                 addr_info |-> [layer_2 |-> <<>>, ipv4 |-> <<>>]]
    /\ mConfigured = <<>>
    /\ mInstance = 0
    /\ mBuilt = [mac_addr |-> "None", ipv4_addr |-> "None"]

MacInit ==
    /\ mpc = "config"
    /\ mNodeCount \in 0..MaxMacNodes
    /\ mIface \in MacInterfaces(mNodeCount)
    /\ mConfigured = IF mIface.addr_info.layer_2 = <<>> THEN <<>>
                     ELSE mIface.addr_info.layer_2[1].addresses
    /\ mInstance = 0
    /\ mBuilt = [mac_addr |-> "None", ipv4_addr |-> "None"]

\* __add_mac_addresses: interface.get("layer_2", {... 'addresses': []})
Layer2Of(iface) ==
    IF iface.layer_2 # <<>> THEN iface.layer_2[1]
    ELSE Block("AF_PACKET", <<>>, <<>>)

\* __add_mac_addresses for one interface, new being the __random_mac()
\* results in the order they are drawn
add_mac_addresses(iface, node_count, new) ==
    LET layer_2 == Layer2Of(iface)
        existing_macs == Prefix(layer_2.addresses, node_count)
        filled == [layer_2 EXCEPT
                     !.addresses = existing_macs
                         \o SubSeq(new, 1, node_count - Len(existing_macs))]
    IN  [iface EXCEPT !.addr_info.layer_2 = <<filled>>]

\* prepare(): __set_node_mac_addresses for the interface
MacPrepare ==
    /\ UNCHANGED nonMacVars
    /\ mpc = "config"
    /\ \E new \in [1..mNodeCount -> RandomMacs] :
        mIface' = add_mac_addresses(mIface, mNodeCount, new)
    /\ mpc' = "planned"
    /\ UNCHANGED <<mNodeCount, mConfigured, mInstance, mBuilt>>

\* node_addrs(network_interface, family): the 'configuration.addresses'
\* of the addr_info blocks of the family
node_addrs(iface, family) ==
    LET l2 == IF iface.addr_info.layer_2 # <<>>
                 /\ iface.addr_info.layer_2[1].family = family
              THEN iface.addr_info.layer_2[1].configuration ELSE <<>>
        l3 == IF iface.addr_info.ipv4 # <<>>
                 /\ iface.addr_info.ipv4[1].family = family
              THEN iface.addr_info.ipv4[1].configuration ELSE <<>>
    IN  l2 \o l3

\* __make_network_interface: addresses of the AF_INET addr_info block
Ipv4Addresses(iface) == iface.addr_info.ipv4[1].configuration

\* the agent builds an instance: VirtualNode.__make_network_interface
MacAgentBuild ==
    /\ UNCHANGED nonMacVars
    /\ mpc = "planned"
    /\ \E instance \in 0..(mNodeCount - 1) :
        LET mac_addrs == node_addrs(mIface, "AF_PACKET")
            addresses == Ipv4Addresses(mIface)
            ipv4_addr == IF instance < Len(addresses)
                         THEN addresses[instance + 1] ELSE "None"
        IN  /\ mInstance' = instance
            /\ IF instance < Len(mac_addrs)
               THEN /\ mBuilt' = [mac_addr |-> mac_addrs[instance + 1],
                                  ipv4_addr |-> ipv4_addr]
                    /\ mpc' = "built"
               ELSE \* mac_addrs[instance] raises IndexError
                    /\ mpc' = "failed"
                    /\ UNCHANGED mBuilt
    /\ UNCHANGED <<mNodeCount, mIface, mConfigured>>

MacNext ==
    \/ MacPrepare
    \/ MacAgentBuild

-----------------------------------------------------------------------------
(***************************************************************************)
(* Cluster.prepare: the networks of the plan and __add_endpoint_ips        *)
(***************************************************************************)

\* virtual_blades.blade_classes(), in the provider's order
BladeClassOrder == <<"bA", "bB">>

BladeClasses == {BladeClassOrder[i] : i \in 1..Len(BladeClassOrder)}

\* the keys of config['networks'], in order; the last is the host-blade
\* network that __add_host_blade_net added
NetworkKeys == <<"n1", "hostnet">>

\* virtual_blades.blade_ip(blade_class, instance, interconnect)
blade_ip(c, i, interconnect) == <<c, i, interconnect>>

\* the values of connected_blade_classes: <<>> is unset, <<list>> a list
ConnectedChoices ==
    {<<>>, <<<<>>>>, << <<"bA">> >>, << <<"bB">> >>, << <<"bA", "bB">> >>,
     << <<"bB", "bA">> >>}

\* the values of blade_interconnect: "missing" is no such key
InterconnectChoices == {"missing", "None", "ic0"}

NetworkChoices ==
    [delete : BOOLEAN, blade_interconnect : InterconnectChoices,
     connected_blade_classes : ConnectedChoices]

EndpointsIdle ==
    /\ epc = "config"
    /\ eBladeCount = [c \in BladeClasses |-> 0]
    /\ eNetworks = <<>>
    /\ ePlan = <<>>

EndpointsInit ==
    /\ epc = "config"
    /\ eBladeCount \in [BladeClasses -> 0..MaxBladeCount]
    /\ eNetworks \in [1..Len(NetworkKeys) -> NetworkChoices]
    /\ ePlan = <<>>

ConnectedClassesMutant(network) == BladeClassOrder

\* __add_endpoint_ips: the blade classes whose blades are endpoints
ConnectedClasses(network) ==
    IF network.connected_blade_classes = <<>> THEN BladeClassOrder
    ELSE network.connected_blade_classes[1]

RECURSIVE EndpointIpsOf(_, _, _)
EndpointIpsOf(classes, counts, interconnect) ==
    IF classes = <<>> THEN <<>>
    ELSE [i \in 1..counts[Head(classes)] |->
             blade_ip(Head(classes), i - 1, interconnect)]
         \o EndpointIpsOf(Tail(classes), counts, interconnect)

\* __add_endpoint_ips: the value stored under 'endpoint_ips'
add_endpoint_ips(network, counts) ==
    IF network.blade_interconnect # "None"
    THEN EndpointIpsOf(ConnectedClasses(network), counts,
                       network.blade_interconnect)
    ELSE <<>>

\* the networks the dictionary comprehension of prepare() goes through
Kept(nets) == {k \in 1..Len(nets) : ~nets[k].delete}

\* prepare(): blade_config['networks'] = {...}; a network without
\* 'blade_interconnect' makes __add_endpoint_ips raise ContextualError
EndpointsPrepare ==
    /\ UNCHANGED nonEndpointsVars
    /\ epc = "config"
    /\ IF \E k \in Kept(eNetworks) :
            eNetworks[k].blade_interconnect = "missing"
       THEN /\ epc' = "failed"
            /\ UNCHANGED ePlan
       ELSE /\ epc' = "planned"
            /\ ePlan' = [k \in Kept(eNetworks) |->
                            [name |-> NetworkKeys[k],
                             endpoint_ips |->
                                 add_endpoint_ips(eNetworks[k], eBladeCount)]]
    /\ UNCHANGED <<eBladeCount, eNetworks>>

EndpointsNext ==
    \/ EndpointsPrepare

-----------------------------------------------------------------------------
(***************************************************************************)
(* Cluster.__add_host_blade_net                                            *)
(***************************************************************************)

\* the prefix lengths followed for the host-blade CIDR
HostPrefixLens == {24, 29, 30}

\* str() of the n-th address of 10.255.0.0/len
HostIp(n) == <<10, 255, 0, n>>

\* [*IPv4Network(cidr).hosts()]: the addresses between the network and the
\* broadcast address, ascending
NetworkHosts(len) == [i \in 1..(2^(32 - len) - 2) |-> HostIp(i)]

ReverseMutant(s) == s

\* list.reverse()
Reverse(s) == [i \in 1..Len(s) |-> s[Len(s) - i + 1]]

RECURSIVE SumSeq(_)
SumSeq(s) == IF s = <<>> THEN 0 ELSE Head(s) + SumSeq(Tail(s))

\* n times hosts.pop(): the popped values in order, and what is left;
\* ok is FALSE when pop() met an empty list (IndexError)
PopN(hosts, n) ==
    IF n <= Len(hosts)
    THEN [ok |-> TRUE,
          popped |-> [i \in 1..n |-> hosts[Len(hosts) - i + 1]],
          rest |-> SubSeq(hosts, 1, Len(hosts) - n)]
    ELSE [ok |-> FALSE, popped |-> <<>>, rest |-> <<>>]

\* the loop over the node classes: each takes node_count addresses
RECURSIVE PopForClasses(_, _)
PopForClasses(hosts, counts) ==
    IF counts = <<>> THEN [ok |-> TRUE, addresses |-> <<>>]
    ELSE LET first == PopN(hosts, Head(counts))
             others == PopForClasses(first.rest, Tail(counts))
         IN  IF first.ok /\ others.ok
             THEN [ok |-> TRUE,
                   addresses |-> <<first.popped>> \o others.addresses]
             ELSE [ok |-> FALSE, addresses |-> <<>>]

\* l3_config['connected_blades']: one entry per blade class
ConnectedBlades(blade_ip_addr, counts) ==
    [k \in 1..Len(BladeClassOrder) |->
        [blade_class |-> BladeClassOrder[k],
         blade_instances |->
             [i \in 1..counts[BladeClassOrder[k]] |-> i - 1],
         blade_ips |->
             [i \in 1..counts[BladeClassOrder[k]] |-> blade_ip_addr]]]

HostNetIdle ==
    /\ hpc = "config"
    /\ hPrefixLen = 24
    /\ hBladeCount = [c \in BladeClasses |-> 0]
    /\ hNodeCount = <<>>
    /\ hConnected = <<>>
    /\ hAddresses = <<>>
    /\ hResult = "none"
    /\ hInherits = FALSE
    /\ hExpanded = <<>>

HostNetInit ==
    /\ hpc = "config"
    /\ hPrefixLen \in HostPrefixLens
    /\ hBladeCount \in [BladeClasses -> 0..MaxHostBlades]
    /\ hNodeCount \in UNION {[1..n -> 0..MaxHostNodes] : n \in 1..2}
    /\ hConnected = <<>>
    /\ hAddresses = <<>>
    /\ hResult = "none"
    /\ hInherits \in BOOLEAN
    /\ hInherits => (Len(hNodeCount) = 2 /\ hNodeCount[2] = 0)
    /\ hExpanded = <<>>

\* __add_host_blade_net
HostNetPrepare ==
    /\ UNCHANGED nonHostNetVars
    /\ hpc = "config"
    /\ LET hosts == Reverse(Prefix(NetworkHosts(hPrefixLen),
                                   SumSeq(hNodeCount) + 1))
           blade_side == PopN(hosts, 1)
           node_side == PopForClasses(blade_side.rest, hNodeCount)
       IN  IF blade_side.ok /\ node_side.ok
           THEN /\ hConnected' = ConnectedBlades(blade_side.popped[1], hBladeCount)
                /\ hAddresses' = node_side.addresses
                /\ hpc' = "planned"
                /\ UNCHANGED hResult
           ELSE /\ hpc' = "failed"
                /\ hResult' = "IndexError"
                /\ UNCHANGED <<hConnected, hAddresses>>
    /\ UNCHANGED <<hPrefixLen, hBladeCount, hNodeCount, hInherits, hExpanded>>

\* prepare(): __expand_node_classes runs after __add_host_blade_net.  The
\* class that leaves node_count to its parent gets the parent's; the
\* host-blade interface was written into every class itself, so the
\* class's own address list replaces the parent's.
HostNetExpand ==
    /\ UNCHANGED nonHostNetVars
    /\ hpc = "planned"
    /\ hExpanded' =
          [j \in 1..Len(hNodeCount) |->
              [node_count |-> IF hInherits /\ j = 2 THEN hNodeCount[1]
                              ELSE hNodeCount[j],
               addresses |-> hAddresses[j]]]
    /\ hpc' = "expanded"
    /\ UNCHANGED <<hPrefixLen, hBladeCount, hNodeCount, hConnected,
                   hAddresses, hResult, hInherits>>

HostNetNext ==
    \/ HostNetPrepare
    \/ HostNetExpand

-----------------------------------------------------------------------------
(***************************************************************************)
(* Cluster.__expand_node_classes and the networks prepare() keeps          *)
(***************************************************************************)

\* a value a configuration may leave unset: <<>> or <<v>>
Optional(S) == {<<>>} \cup {<<v>> : v \in S}

\* dict.get('delete', False)
Deleted(entry) == entry.delete = <<TRUE>>

PartitionMaps(deletes) ==
    {[k \in D |-> [delete |-> d]] : D \in SUBSET {"p1"}, d \in deletes}

DiskMaps(deletes) ==
    {[k \in D |-> [delete |-> d, partitions |-> p]] :
        D \in SUBSET {"d1"}, d \in deletes, p \in PartitionMaps(deletes)}

InterfaceMaps(deletes, nets) ==
    {[k \in D |-> [delete |-> d, cluster_network |-> n]] :
        D \in SUBSET {"i1"}, d \in deletes, n \in nets}

\* a base class, pure or not, which sets what it mentions
BaseClasses ==
    [pure_base_class : BOOLEAN,
     parent_class : {<<>>},
     network_interfaces :
         InterfaceMaps({<<>>, <<TRUE>>}, {<<"n1">>, <<"n2">>}),
     additional_disks : DiskMaps({<<>>, <<TRUE>>})]

\* a class that may inherit from the base class and override parts of it
ChildClasses ==
    [pure_base_class : {FALSE},
     parent_class : Optional({"base"}),
     network_interfaces :
         InterfaceMaps(Optional(BOOLEAN), Optional({"n1", "n2"})),
     additional_disks : DiskMaps(Optional(BOOLEAN))]

\* the networks: n1 with or without delete, n2 configured or not
NetworkMaps ==
    {[k \in D |-> [delete |-> IF k = "n1" THEN d ELSE <<>>]] :
        D \in {{"n1"}, {"n1", "n2"}}, d \in {<<>>, <<TRUE>>}}

\* a setting of the child replaces the parent's, an unset one inherits it
Over(parent, child) == IF child # <<>> THEN child ELSE parent

\* the merge of the partitions of a disk: the child's settings over the
\* parent's, key by key
MergePartitions(P, C) ==
    [k \in DOMAIN P \cup DOMAIN C |->
        IF k \in DOMAIN P /\ k \in DOMAIN C
        THEN [delete |-> Over(P[k].delete, C[k].delete)]
        ELSE IF k \in DOMAIN C THEN C[k] ELSE P[k]]

\* the merge of the additional disks
MergeDisks(P, C) ==
    [k \in DOMAIN P \cup DOMAIN C |->
        IF k \in DOMAIN P /\ k \in DOMAIN C
        THEN [delete |-> Over(P[k].delete, C[k].delete),
              partitions |-> MergePartitions(P[k].partitions,
                                             C[k].partitions)]
        ELSE IF k \in DOMAIN C THEN C[k] ELSE P[k]]

\* the merge of the network interfaces
MergeInterfaces(P, C) ==
    [k \in DOMAIN P \cup DOMAIN C |->
        IF k \in DOMAIN P /\ k \in DOMAIN C
        THEN [delete |-> Over(P[k].delete, C[k].delete),
              cluster_network |-> Over(P[k].cluster_network,
                                       C[k].cluster_network)]
        ELSE IF k \in DOMAIN C THEN C[k] ELSE P[k]]

\* expand_inheritance(node_classes, key): the class merged over its
\* expanded parent
RECURSIVE expand_inheritance(_, _)
expand_inheritance(node_classes, key) ==
    LET c == node_classes[key]
    IN  IF c.parent_class = <<>> THEN c
        ELSE LET p == expand_inheritance(node_classes, c.parent_class[1])
             IN  [pure_base_class |-> c.pure_base_class,
                  parent_class |-> c.parent_class,
                  network_interfaces |->
                      MergeInterfaces(p.network_interfaces,
                                      c.network_interfaces),
                  additional_disks |->
                      MergeDisks(p.additional_disks, c.additional_disks)]

\* the entries of a dictionary without a true delete flag
NotDeleted(m) == [k \in {j \in DOMAIN m : ~Deleted(m[j])} |-> m[k]]

clean_deleted_interfaces(node_class) ==
    [node_class EXCEPT
        !.network_interfaces = NotDeleted(node_class.network_interfaces)]

clean_deleted_partitionsMutant(disk) == disk

clean_deleted_partitions(disk) ==
    [disk EXCEPT !.partitions = NotDeleted(disk.partitions)]

clean_deleted_disks(node_class) ==
    LET kept == NotDeleted(node_class.additional_disks)
    IN  [node_class EXCEPT
            !.additional_disks =
                [k \in DOMAIN kept |-> clean_deleted_partitions(kept[k])]]

\* the loop of __expand_node_classes: each class in turn is replaced by
\* its cleaned expansion, pure base classes are left as they are
RECURSIVE expand_node_classes(_, _)
expand_node_classes(node_classes, order) ==
    IF order = <<>> THEN node_classes
    ELSE LET key == Head(order)
             expanded == clean_deleted_disks(clean_deleted_interfaces(
                             expand_inheritance(node_classes, key)))
         IN  expand_node_classes(
                 IF node_classes[key].pure_base_class THEN node_classes
                 ELSE [node_classes EXCEPT ![key] = expanded],
                 Tail(order))

PlanIdle ==
    /\ xpc = "config"
    /\ xOrder = <<>>
    /\ xClasses = <<>>
    /\ xNetworks = <<>>
    /\ xExpanded = <<>>
    /\ xPlanNetworks = <<>>

PlanInit ==
    /\ xpc = "config"
    /\ xOrder \in {<<"base", "child">>, <<"child", "base">>}
    /\ xClasses \in {[k \in {"base", "child"} |->
                        IF k = "base" THEN b ELSE c] :
                     b \in BaseClasses, c \in ChildClasses}
    /\ xNetworks \in NetworkMaps
    /\ xExpanded = <<>>
    /\ xPlanNetworks = <<>>

\* prepare(): __expand_node_classes
PlanExpand ==
    /\ UNCHANGED nonPlanVars
    /\ xpc = "config"
    /\ xExpanded' = expand_node_classes(xClasses, xOrder)
    /\ xpc' = "expanded"
    /\ UNCHANGED <<xOrder, xClasses, xNetworks, xPlanNetworks>>

\* prepare(): the networks without delete are kept and the plan is dumped
PlanDump ==
    /\ UNCHANGED nonPlanVars
    /\ xpc = "expanded"
    /\ xPlanNetworks' = NotDeleted(xNetworks)
    /\ xpc' = "planned"
    /\ UNCHANGED <<xOrder, xClasses, xNetworks, xExpanded>>

PlanNext ==
    \/ PlanExpand
    \/ PlanDump

-----------------------------------------------------------------------------
(***************************************************************************)
(* main() and KeaDHCP4: the subnets of the Kea configuration               *)
(***************************************************************************)

\* str() of a blade instance number
Str(n) == <<"0", "1", "2", "3", "4", "5", "6", "7", "8", "9">>[n + 1]

dhcp4_server_instancesMutant(dhcp, blade_class) ==
    IF dhcp # <<>> /\ dhcp[1].enabled /\ dhcp[1].blade_class = blade_class
    THEN <<"0", "1">> ELSE <<>>

\* dhcp4_server_instances(): the instance named by dhcp.blade_host when
\* DHCP is enabled and the blade host is of this blade class
dhcp4_server_instances(dhcp, blade_class) ==
    IF /\ dhcp # <<>>
       /\ dhcp[1].enabled
       /\ dhcp[1].blade_class = blade_class
       /\ dhcp[1].blade_instance # <<>>
    THEN <<Str(dhcp[1].blade_instance[1])>>
    ELSE <<>>

\* main(): the networks in scope whose DHCP4 server is this blade
Dhcp4Networks(networks_, dhcp, blade_class, blade_instance) ==
    FilterSeq(networks_,
              {n \in NetNames :
                  LET served == dhcp4_server_instances(dhcp[n], blade_class)
                  IN  \E i \in 1..Len(served) : served[i] = blade_instance})

\* __compose_subnets: one subnet per network with a dhcp block
RECURSIVE compose_subnets(_, _)
compose_subnets(dhcp4_networks, dhcp) ==
    IF dhcp4_networks = <<>> THEN <<>>
    ELSE (IF dhcp[Head(dhcp4_networks)] # <<>>
          THEN <<[network |-> Head(dhcp4_networks)]>> ELSE <<>>)
         \o compose_subnets(Tail(dhcp4_networks), dhcp)

KeaIdle ==
    /\ kpc = "start"
    /\ kBladeClass = "bA"
    /\ kBladeInstance = "0"
    /\ kHost = [c \in ClassNames |-> "bA"]
    /\ kIfNets = [c \in ClassNames |-> {}]
    /\ kDhcp = [n \in NetNames |-> <<>>]
    /\ kSubnet4 = <<>>

KeaInit ==
    /\ kpc = "start"
    /\ kBladeClass \in BladeClasses
    /\ kBladeInstance \in {"0", "1"}
    /\ kHost \in [ClassNames -> BladeClasses]
    /\ kIfNets \in [ClassNames -> SUBSET NetNames]
    /\ kDhcp \in [NetNames ->
                    {<<>>} \cup
                    {<<d>> : d \in [enabled : BOOLEAN,
                                    blade_class : BladeClasses,
                                    blade_instance :
                                        {<<>>, <<0>>, <<1>>}]}]
    /\ kSubnet4 = <<>>

\* main(): the node classes and networks of this blade class, the networks
\* served by this blade, KeaDHCP4(...) and write_config()
KeaWriteConfig ==
    /\ UNCHANGED nonKeaVars
    /\ kpc = "start"
    /\ LET node_classes == {c \in ClassNames : kHost[c] = kBladeClass}
           networks_ == NetworksInScope(NetNames, node_classes, kIfNets)
           dhcp4_networks == Dhcp4Networks(networks_, kDhcp, kBladeClass,
                                           kBladeInstance)
       IN  kSubnet4' = compose_subnets(dhcp4_networks, kDhcp)
    /\ kpc' = "written"
    /\ UNCHANGED <<kBladeClass, kBladeInstance, kHost, kIfNets, kDhcp>>

KeaNext ==
    \/ KeaWriteConfig

-----------------------------------------------------------------------------
(***************************************************************************)
(* KeaDHCP4.restart_server                                                 *)
(***************************************************************************)

\* restart_server(): timeout = 30
RestartTimeout == 30

RestartIdle ==
    /\ kwpc = "start"
    /\ kwTimeout = 0
    /\ kwPolls = 0
    /\ kwActiveAfter = 0
    /\ kwResult = "none"

\* the service becomes active at once, after some seconds, or not within
\* the polls followed
RestartInit ==
    /\ kwpc = "start"
    /\ kwTimeout = 0
    /\ kwPolls = 0
    /\ kwActiveAfter \in 0..MaxKeaPolls
    /\ kwResult = "none"

\* run_cmd('systemctl', ['restart', 'kea-dhcp4-server']); timeout = 30
RestartServer ==
    /\ UNCHANGED nonRestartVars
    /\ kwpc = "start"
    /\ \E ok \in BOOLEAN :
        IF ok
        THEN /\ kwTimeout' = RestartTimeout
             /\ kwpc' = "polling"
             /\ UNCHANGED kwResult
        ELSE /\ kwpc' = "raised"
             /\ kwResult' = "ContextualError"
             /\ UNCHANGED kwTimeout
    /\ UNCHANGED <<kwPolls, kwActiveAfter>>

\* one pass of "while timeout > 0": systemctl is-active, return when it
\* exits 0, sleep(1) otherwise. No statement of the loop assigns timeout,
\* so the statements after the loop (systemctl status and the
\* ContextualError) are never reached.
RestartPoll ==
    /\ UNCHANGED nonRestartVars
    /\ kwpc = "polling"
    /\ kwTimeout > 0
    /\ kwPolls < MaxKeaPolls
    /\ IF kwPolls >= kwActiveAfter
       THEN /\ kwpc' = "returned"
            /\ UNCHANGED kwPolls
       ELSE /\ kwPolls' = kwPolls + 1
            /\ UNCHANGED kwpc
    /\ UNCHANGED <<kwTimeout, kwActiveAfter, kwResult>>

RestartNext ==
    \/ RestartServer
    \/ RestartPoll

-----------------------------------------------------------------------------
(***************************************************************************)
(* NetworkInstaller._find_underlay and connect_endpoints                   *)
(***************************************************************************)

\* the underlay addresses of three blades, and an address off the underlay
UnderlayIps == {"A", "B", "C"}

\* is x an element of the list s
InList(x, s) == \E i \in 1..Len(s) : s[i] = x

\* _find_underlay: the first link, and its first local address, that is in
\* endpoint_ips; <<>> when there is none (ContextualError)
RECURSIVE find_underlay(_, _)
find_underlay(interfaces, endpoint_ips) ==
    IF interfaces = <<>> THEN <<>>
    ELSE LET locals == Head(interfaces).addr_info
             hits == {i \in 1..Len(locals) : InList(locals[i], endpoint_ips)}
         IN  IF hits # {}
             THEN <<Head(interfaces).ifname,
                    locals[CHOOSE i \in hits : \A j \in hits : i <= j]>>
             ELSE find_underlay(Tail(interfaces), endpoint_ips)

remote_ipsMutant(endpoint_ips, local_ip_addr) == endpoint_ips

\* connect_endpoints: remote_ips
RECURSIVE remote_ips(_, _)
remote_ips(endpoint_ips, local_ip_addr) ==
    IF endpoint_ips = <<>> THEN <<>>
    ELSE (IF Head(endpoint_ips) # local_ip_addr
          THEN <<Head(endpoint_ips)>> ELSE <<>>)
         \o remote_ips(Tail(endpoint_ips), local_ip_addr)

MeshIdle ==
    /\ meshPc = "start"
    /\ meshEndpointIps = <<>>
    /\ meshInterfaces = <<>>
    /\ meshDevice = <<>>
    /\ meshAppends = <<>>
    /\ meshResult = "none"

\* endpoint_ips lists each blade once; the blade has a loopback and two
\* links, each with no address, one address or two
MeshInit ==
    /\ meshPc = "start"
    /\ meshEndpointIps \in
          {s \in UNION {[1..n -> UnderlayIps] : n \in 0..3} :
              \A i, j \in 1..Len(s) : s[i] = s[j] => i = j}
    /\ meshInterfaces \in
          {<<[ifname |-> "lo", addr_info |-> <<"L">>],
             [ifname |-> "eth0", addr_info |-> a],
             [ifname |-> "eth1", addr_info |-> b]>> :
              a \in {<<>>, <<"A">>, <<"B">>, <<"X">>, <<"X", "B">>},
              b \in {<<>>, <<"C">>, <<"Y">>}}
    /\ meshDevice = <<>>
    /\ meshAppends = <<>>
    /\ meshResult = "none"

\* construct_virtual_network: _find_underlay, then connect_endpoints; the
\* k-th bridge fdb append may fail, which ends the loop with an error
MeshConnect ==
    /\ UNCHANGED nonMeshVars
    /\ meshPc = "start"
    /\ LET found == find_underlay(meshInterfaces, meshEndpointIps)
       IN  IF found = <<>>
           THEN /\ meshPc' = "failed"
                /\ meshResult' = "ContextualError"
                /\ UNCHANGED <<meshDevice, meshAppends>>
           ELSE LET remote == remote_ips(meshEndpointIps, found[2])
                IN  \E failed \in 0..Len(remote) :
                       /\ meshDevice' = found
                       /\ meshAppends' = IF failed = 0 THEN remote
                                      ELSE SubSeq(remote, 1, failed)
                       /\ meshPc' = IF failed = 0 THEN "done" ELSE "failed"
                       /\ meshResult' = IF failed = 0 THEN "ok"
                                     ELSE "ContextualError"
    /\ UNCHANGED <<meshEndpointIps, meshInterfaces>>

MeshNext ==
    \/ MeshConnect

-----------------------------------------------------------------------------
(***************************************************************************)
(* VirtualNode.__make_network_interface and __configure_netplan            *)
(***************************************************************************)

\* the prefix length of the network's cidr, as network_length returns it
NetLength == "24"

\* __make_network_interface: the context of one interface; the lists are
\* indexed from 0 in the code
make_network_interface(mode, addresses, instance) ==
    [dhcp4 |-> mode \in {"dynamic", "reserved"} \/ instance >= Len(addresses),
     ipv4_addr |-> IF instance < Len(addresses)
                   THEN <<addresses[instance + 1]>> ELSE <<>>,
     ipv4_netlength |-> IF instance < Len(addresses)
                        THEN <<NetLength>> ELSE <<>>]

\* __configure_netplan: the entry of the interface under ethernets
netplan_entry(interface) ==
    [addresses |-> IF interface.ipv4_addr # <<>>
                   THEN <<interface.ipv4_addr[1] \o "/"
                            \o interface.ipv4_netlength[1]>>
                   ELSE <<>>,
     dhcp6 |-> FALSE,
     dhcp4 |-> interface.dhcp4]

NetplanIdle ==
    /\ npPc = "start"
    /\ npMode = "static"
    /\ npAddresses = <<>>
    /\ npMacs = <<>>
    /\ npInstance = 0
    /\ npEntry = <<>>

\* a node class of three nodes; the block lists no address, two or three
NetplanInit ==
    /\ npPc = "start"
    /\ npMode \in {"static", "dynamic", "reserved"}
    /\ npAddresses \in {Prefix(<<"10.0.0.5", "10.0.0.6", "10.0.0.7">>, n) :
                          n \in {0, 1, 2, 3}}
    /\ npMacs \in {Prefix(<<"52:54:00:00:00:01", "52:54:00:00:00:02",
                             "52:54:00:00:00:03">>, n) : n \in {0, 3}}
    /\ npInstance \in 0..2
    /\ npEntry = <<>>

\* __make_network_interfaces for one interface: its context, then its
\* netplan entry; mac_addrs[instance] raises IndexError on a short list
NetplanCompose ==
    /\ UNCHANGED nonNetplanVars
    /\ npPc = "start"
    /\ IF npInstance < Len(npMacs)
       THEN /\ npEntry' = <<netplan_entry(
                   make_network_interface(npMode, npAddresses, npInstance))>>
            /\ npPc' = "done"
       ELSE /\ npPc' = "failed"
            /\ UNCHANGED npEntry
    /\ UNCHANGED <<npMode, npAddresses, npMacs, npInstance>>

NetplanNext ==
    \/ NetplanCompose

-----------------------------------------------------------------------------
(***************************************************************************)
(* VirtualNode.__make_disk                                                 *)
(***************************************************************************)

disk_refusedMutant(disk_config) ==
    \/ disk_config.target_device # "set"
    \/ /\ disk_config.source_image # "set"
       /\ disk_config.partitions # "set"
       /\ disk_config.disk_size_mb # "set"

\* __make_disk: the three checks that raise a configuration error; a key
\* counts when its value is true in Python's sense
disk_refused(disk_config) ==
    \/ disk_config.target_device # "set"
    \/ /\ disk_config.partitions = "set"
       /\ disk_config.source_image = "set"
    \/ /\ disk_config.source_image # "set"
       /\ disk_config.partitions # "set"
       /\ disk_config.disk_size_mb # "set"

DiskIdle ==
    /\ dPc = "start"
    /\ dConfig = [target_device |-> "set", source_image |-> "unset",
                  partitions |-> "unset", disk_size_mb |-> "set"]
    /\ dCached = FALSE
    /\ dLog = <<>>
    /\ dResult = "none"

DiskInit ==
    /\ dPc = "start"
    /\ dConfig \in [target_device : {"unset", "empty", "set"},
                    source_image : {"unset", "set"},
                    partitions : {"unset", "empty", "set"},
                    disk_size_mb : {"unset", "empty", "set"}]
    /\ dCached \in BOOLEAN
    /\ dLog = <<>>
    /\ dResult = "none"

\* __make_disk: the checks, __retrieve_image (curl unless the file exists)
\* and __make_disk_image (qemu-img create, chown); a command that fails
\* raises and ends the function
MakeDisk ==
    /\ UNCHANGED nonDiskVars
    /\ dPc = "start"
    /\ IF disk_refused(dConfig)
       THEN /\ dPc' = "failed"
            /\ dResult' = "ConfigurationError"
            /\ UNCHANGED dLog
       ELSE LET retrieve == IF dConfig.source_image = "set" /\ ~dCached
                            THEN <<"curl">> ELSE <<>>
                commands == retrieve \o <<"qemu-img create", "chown">>
            IN  \E failed \in 0..Len(commands) :
                   /\ dLog' = IF failed = 0 THEN commands
                              ELSE SubSeq(commands, 1, failed)
                   /\ dPc' = IF failed = 0 THEN "made" ELSE "failed"
                   /\ dResult' = IF failed = 0 THEN "ok" ELSE "CommandError"
    /\ UNCHANGED <<dConfig, dCached>>

DiskNext ==
    \/ MakeDisk

-----------------------------------------------------------------------------
(***************************************************************************)
(* main(): node.remove() and node.create() for the nodes of the blade      *)
(***************************************************************************)

\* the hostnames of main's list of nodes, in order
Hostnames == <<"h1", "h2">>

\* what a virsh command makes of a domain; the domain is left as it is
\* when libvirt refuses the command
Virsh(command, domain) ==
    CASE command = "destroy" /\ domain = "running" -> "inactive"
      [] command = "destroy" /\ domain = "transient" -> "absent"
      [] command = "undefine" /\ domain = "inactive" -> "absent"
      [] command = "undefine" /\ domain = "running" -> "transient"
      [] command = "define" /\ domain = "absent" -> "inactive"
      [] command = "start" /\ domain = "inactive" -> "running"
      [] OTHER -> domain

\* libvirt refuses the command for a domain in this state
Refused(command, domain) == Virsh(command, domain) = domain

remove_commandsMutant == <<"undefine">>

\* VirtualNode.remove(): stop(), then virsh undefine
remove_commands == <<"destroy", "undefine">>

\* the commands of a list run with check=False on a domain: a command that
\* is refused, or that fails for another reason, is passed over
RECURSIVE RunUnchecked(_, _, _, _)
RunUnchecked(commands, host, domain, fails) ==
    IF commands = <<>> THEN [domain |-> domain, log |-> <<>>]
    ELSE LET ok == ~Refused(Head(commands), domain) /\ ~Head(fails)
             after == IF ok THEN Virsh(Head(commands), domain) ELSE domain
             rest == RunUnchecked(Tail(commands), host, after, Tail(fails))
         IN  [domain |-> rest.domain,
              log |-> <<<<Head(commands), host, ok>>>> \o rest.log]

DomainIdle ==
    /\ vPc = "build"
    /\ vWrites = <<>>
    /\ vDomains = [h \in {"h1", "h2"} |-> "absent"]
    /\ vIdx = 1
    /\ vLog = <<>>
    /\ vResult = "none"

\* "virsh destroy <host>" is in the log of commands run so far
Destroyed(log, host) ==
    \E i \in 1..Len(log) : log[i][1] = "destroy" /\ log[i][2] = host

\* main() is about to build its nodes; a domain of each hostname may be
\* left from before
DomainInit ==
    /\ vPc = "build"
    /\ vWrites = <<>>
    /\ vDomains \in [{"h1", "h2"} ->
                        {"absent", "inactive", "running", "transient"}]
    /\ vIdx = 1
    /\ vLog = <<>>
    /\ vResult = "none"

\* one pass of the list comprehension "nodes = [VirtualNode(...) ...]":
\* VirtualNode.__init__ ends with self.__compose(), which makes the boot
\* disk and the additional disks (curl, qemu-img create, chown) and writes
\* the netplan into the boot disk (virt-customize); a command that fails
\* ends the run
DomainBuild ==
    /\ UNCHANGED nonDomainVars
    /\ vPc = "build"
    /\ LET host == Hostnames[vIdx]
       IN  \E fails \in BOOLEAN :
             IF fails
             THEN /\ vPc' = "unbuilt"
                  /\ vResult' = "ContextualError"
                  /\ UNCHANGED <<vIdx, vWrites>>
             ELSE /\ vWrites' = Append(vWrites,
                                       <<host, "compose",
                                         Destroyed(vLog, host)>>)
                  /\ IF vIdx = Len(Hostnames)
                     THEN /\ vPc' = "remove"
                          /\ vIdx' = 1
                     ELSE /\ vIdx' = vIdx + 1
                          /\ UNCHANGED vPc
                  /\ UNCHANGED vResult
    /\ UNCHANGED <<vDomains, vLog>>

\* one pass of the first "for node in nodes": node.remove()
DomainRemove ==
    /\ UNCHANGED nonDomainVars
    /\ vPc = "remove"
    /\ \E fails \in [1..Len(remove_commands) -> BOOLEAN] :
        LET host == Hostnames[vIdx]
            run == RunUnchecked(remove_commands, host, vDomains[host], fails)
        IN  /\ vDomains' = [vDomains EXCEPT ![host] = run.domain]
            /\ vLog' = vLog \o run.log
    /\ IF vIdx = Len(Hostnames)
       THEN /\ vPc' = "create"
            /\ vIdx' = 1
       ELSE /\ vIdx' = vIdx + 1
            /\ UNCHANGED vPc
    /\ UNCHANGED <<vResult, vWrites>>

\* one pass of the second "for node in nodes": node.create(), that is the
\* customization of the boot disk, virsh define and virsh start, each
\* checked
DomainCreate ==
    /\ UNCHANGED nonDomainVars
    /\ vPc = "create"
    /\ LET host == Hostnames[vIdx]
       IN  \E failing \in {"none", "customize", "define", "start"} :
            LET defined == failing \notin {"customize", "define"}
                               /\ ~Refused("define", vDomains[host])
                d1 == IF defined THEN Virsh("define", vDomains[host])
                      ELSE vDomains[host]
                started == defined /\ failing # "start"
                               /\ ~Refused("start", d1)
                d2 == IF started THEN Virsh("start", d1) ELSE d1
            IN  /\ vDomains' = [vDomains EXCEPT ![host] = d2]
                /\ vWrites' = Append(vWrites,
                                     <<host, "customize",
                                       Destroyed(vLog, host)>>)
                /\ vLog' = vLog
                     \o (IF failing = "customize" THEN <<>>
                         ELSE <<<<"define", host, defined>>>>)
                     \o (IF defined THEN <<<<"start", host, started>>>>
                         ELSE <<>>)
                /\ IF ~started
                   THEN /\ vPc' = "ended"
                        /\ vResult' = "ContextualError"
                        /\ UNCHANGED vIdx
                   ELSE IF vIdx = Len(Hostnames)
                   THEN /\ vPc' = "ended"
                        /\ vResult' = "ok"
                        /\ UNCHANGED vIdx
                   ELSE /\ vIdx' = vIdx + 1
                        /\ UNCHANGED <<vPc, vResult>>

DomainNext ==
    \/ DomainBuild
    \/ DomainRemove
    \/ DomainCreate

-----------------------------------------------------------------------------
(***************************************************************************)
(* PrivateVirtualNodes.connect_nodes / ssh_connect_nodes and               *)
(* PrivateNodeConnectionSet.__exit__                                       *)
(***************************************************************************)

MaxSetCount == 2

\* "for node_class in node_classes for instance in range(0, node_count)"
RECURSIVE RequestedNodes(_, _)
RequestedNodes(node_classes, counts) ==
    IF node_classes = <<>> THEN <<>>
    ELSE [i \in 1..counts[Head(node_classes)] |->
             <<Head(node_classes), i - 1>>]
         \o RequestedNodes(Tail(node_classes), counts)

\* the list comprehension of connect_nodes: the connections are built in
\* order; when the constructor of the failing-th raises (failing = 0: none
\* does) the comprehension is left, the list built so far is dropped and
\* nothing closes the connections in it
connect_nodes(requested, failing) ==
    IF failing = 0
    THEN [raised |-> FALSE,
          connections |-> requested,
          open |-> {requested[i] : i \in 1..Len(requested)}]
    ELSE [raised |-> TRUE,
          connections |-> <<>>,
          open |-> {requested[i] : i \in 1..(failing - 1)}]

\* the loop of __exit__: the members are closed in order; when the
\* __exit__ of the raising-th raises (raising = 0: none does) the loop is
\* left, and that member and the ones after it stay as they are
set_exit(connections, open, raising) ==
    LET closed == IF raising = 0 THEN 1..Len(connections)
                  ELSE 1..(raising - 1)
    IN  [raised |-> raising # 0,
         open |-> open \ {connections[i] : i \in closed}]

NodeSetIdle ==
    /\ nsPc = "start"
    /\ nsMethod = "connect_nodes"
    /\ nsClasses = <<>>
    /\ nsCounts = [c \in {"nc1", "nc2"} |-> 0]
    /\ nsOpen = {}
    /\ nsSet = <<>>

NodeSetInit ==
    /\ nsPc = "start"
    /\ nsMethod \in {"connect_nodes", "ssh_connect_nodes"}
    /\ nsClasses \in {<<"nc1", "nc2">>, <<"nc1">>, <<"nc2">>, <<>>}
    /\ nsCounts \in [{"nc1", "nc2"} -> 0..MaxSetCount]
    /\ nsOpen = {}
    /\ nsSet = <<>>

\* connect_nodes(remote_port, node_classes) or
\* ssh_connect_nodes(node_classes, remote_port)
NodeSetConnect ==
    /\ UNCHANGED nonNodeSetVars
    /\ nsPc = "start"
    /\ LET requested == RequestedNodes(nsClasses, nsCounts)
       IN  \E failing \in 0..Len(requested) :
             LET res == connect_nodes(requested, failing)
             IN  /\ nsOpen' = res.open
                 /\ nsSet' = res.connections
                 /\ nsPc' = IF res.raised THEN "raised" ELSE "connected"
    /\ UNCHANGED <<nsMethod, nsClasses, nsCounts>>

\* the caller leaves the "with" block of the set
NodeSetExit ==
    /\ UNCHANGED nonNodeSetVars
    /\ nsPc = "connected"
    /\ \E raising \in 0..Len(nsSet) :
         LET res == set_exit(nsSet, nsOpen, raising)
         IN  /\ nsOpen' = res.open
             /\ nsPc' = IF res.raised THEN "exitRaised" ELSE "exited"
    /\ UNCHANGED <<nsMethod, nsClasses, nsCounts, nsSet>>

NodeSetNext ==
    \/ NodeSetConnect
    \/ NodeSetExit

-----------------------------------------------------------------------------
(***************************************************************************)
(* The specifications                                                      *)
(***************************************************************************)

InitCluster == ClusterInit /\ FanoutIdle /\ WaitIdle /\ ConnectIdle
               /\ AgentIdle /\ ReconcileIdle
    /\ RangeIdle
    /\ MacIdle
    /\ EndpointsIdle
    /\ HostNetIdle
    /\ PlanIdle
    /\ KeaIdle
    /\ RestartIdle
    /\ MeshIdle
    /\ NetplanIdle
    /\ DiskIdle
    /\ DomainIdle
    /\ NodeSetIdle

SpecCluster == InitCluster /\ [][ClusterNext]_vars

InitFanout == ClusterInit /\ FanoutInit /\ WaitIdle /\ ConnectIdle
               /\ AgentIdle /\ ReconcileIdle
    /\ RangeIdle
    /\ MacIdle
    /\ EndpointsIdle
    /\ HostNetIdle
    /\ PlanIdle
    /\ KeaIdle
    /\ RestartIdle
    /\ MeshIdle
    /\ NetplanIdle
    /\ DiskIdle
    /\ DomainIdle
    /\ NodeSetIdle

SpecFanout == InitFanout /\ [][FanoutNext]_vars

InitWait == ClusterInit /\ FanoutIdle /\ WaitInit /\ ConnectIdle
               /\ AgentIdle /\ ReconcileIdle
    /\ RangeIdle
    /\ MacIdle
    /\ EndpointsIdle
    /\ HostNetIdle
    /\ PlanIdle
    /\ KeaIdle
    /\ RestartIdle
    /\ MeshIdle
    /\ NetplanIdle
    /\ DiskIdle
    /\ DomainIdle
    /\ NodeSetIdle

SpecWait == InitWait /\ [][WaitNext]_vars

InitConnect == ClusterInit /\ FanoutIdle /\ WaitIdle /\ ConnectIdle
               /\ AgentIdle /\ ReconcileIdle
    /\ RangeIdle
    /\ MacIdle
    /\ EndpointsIdle
    /\ HostNetIdle
    /\ PlanIdle
    /\ KeaIdle
    /\ RestartIdle
    /\ MeshIdle
    /\ NetplanIdle
    /\ DiskIdle
    /\ DomainIdle
    /\ NodeSetIdle

SpecConnect == InitConnect /\ [][ConnectNext]_vars

InitAgent == ClusterInit /\ FanoutIdle /\ WaitIdle /\ ConnectIdle
             /\ AgentInit /\ ReconcileIdle
    /\ RangeIdle
    /\ MacIdle
    /\ EndpointsIdle
    /\ HostNetIdle
    /\ PlanIdle
    /\ KeaIdle
    /\ RestartIdle
    /\ MeshIdle
    /\ NetplanIdle
    /\ DiskIdle
    /\ DomainIdle
    /\ NodeSetIdle

SpecAgent == InitAgent /\ [][AgentNext]_vars

InitReconcile == ClusterInit /\ FanoutIdle /\ WaitIdle /\ ConnectIdle
                 /\ AgentIdle /\ ReconcileInit
    /\ RangeIdle
    /\ MacIdle
    /\ EndpointsIdle
    /\ HostNetIdle
    /\ PlanIdle
    /\ KeaIdle
    /\ RestartIdle
    /\ MeshIdle
    /\ NetplanIdle
    /\ DiskIdle
    /\ DomainIdle
    /\ NodeSetIdle

SpecReconcile == InitReconcile /\ [][ReconcileNext]_vars

InitRange ==
    ClusterInit
    /\ FanoutIdle
    /\ WaitIdle
    /\ ConnectIdle
    /\ AgentIdle
    /\ ReconcileIdle
    /\ RangeInit
    /\ MacIdle
    /\ EndpointsIdle
    /\ HostNetIdle
    /\ PlanIdle
    /\ KeaIdle
    /\ RestartIdle
    /\ MeshIdle
    /\ NetplanIdle
    /\ DiskIdle
    /\ DomainIdle
    /\ NodeSetIdle

SpecRange == InitRange /\ [][RangeNext]_vars

InitMac ==
    ClusterInit
    /\ FanoutIdle
    /\ WaitIdle
    /\ ConnectIdle
    /\ AgentIdle
    /\ ReconcileIdle
    /\ RangeIdle
    /\ MacInit
    /\ EndpointsIdle
    /\ HostNetIdle
    /\ PlanIdle
    /\ KeaIdle
    /\ RestartIdle
    /\ MeshIdle
    /\ NetplanIdle
    /\ DiskIdle
    /\ DomainIdle
    /\ NodeSetIdle

SpecMac == InitMac /\ [][MacNext]_vars

InitEndpoints ==
    ClusterInit
    /\ FanoutIdle
    /\ WaitIdle
    /\ ConnectIdle
    /\ AgentIdle
    /\ ReconcileIdle
    /\ RangeIdle
    /\ MacIdle
    /\ EndpointsInit
    /\ HostNetIdle
    /\ PlanIdle
    /\ KeaIdle
    /\ RestartIdle
    /\ MeshIdle
    /\ NetplanIdle
    /\ DiskIdle
    /\ DomainIdle
    /\ NodeSetIdle

SpecEndpoints == InitEndpoints /\ [][EndpointsNext]_vars

InitHostNet ==
    ClusterInit
    /\ FanoutIdle
    /\ WaitIdle
    /\ ConnectIdle
    /\ AgentIdle
    /\ ReconcileIdle
    /\ RangeIdle
    /\ MacIdle
    /\ EndpointsIdle
    /\ HostNetInit
    /\ PlanIdle
    /\ KeaIdle
    /\ RestartIdle
    /\ MeshIdle
    /\ NetplanIdle
    /\ DiskIdle
    /\ DomainIdle
    /\ NodeSetIdle

SpecHostNet == InitHostNet /\ [][HostNetNext]_vars

InitPlan ==
    ClusterInit
    /\ FanoutIdle
    /\ WaitIdle
    /\ ConnectIdle
    /\ AgentIdle
    /\ ReconcileIdle
    /\ RangeIdle
    /\ MacIdle
    /\ EndpointsIdle
    /\ HostNetIdle
    /\ PlanInit
    /\ KeaIdle
    /\ RestartIdle
    /\ MeshIdle
    /\ NetplanIdle
    /\ DiskIdle
    /\ DomainIdle
    /\ NodeSetIdle

SpecPlan == InitPlan /\ [][PlanNext]_vars

InitKea ==
    ClusterInit
    /\ FanoutIdle
    /\ WaitIdle
    /\ ConnectIdle
    /\ AgentIdle
    /\ ReconcileIdle
    /\ RangeIdle
    /\ MacIdle
    /\ EndpointsIdle
    /\ HostNetIdle
    /\ PlanIdle
    /\ KeaInit
    /\ RestartIdle
    /\ MeshIdle
    /\ NetplanIdle
    /\ DiskIdle
    /\ DomainIdle
    /\ NodeSetIdle

SpecKea == InitKea /\ [][KeaNext]_vars

InitRestart ==
    ClusterInit
    /\ FanoutIdle
    /\ WaitIdle
    /\ ConnectIdle
    /\ AgentIdle
    /\ ReconcileIdle
    /\ RangeIdle
    /\ MacIdle
    /\ EndpointsIdle
    /\ HostNetIdle
    /\ PlanIdle
    /\ KeaIdle
    /\ RestartInit
    /\ MeshIdle
    /\ NetplanIdle
    /\ DiskIdle
    /\ DomainIdle
    /\ NodeSetIdle

SpecRestart == InitRestart /\ [][RestartNext]_vars

InitMesh ==
    ClusterInit
    /\ FanoutIdle
    /\ WaitIdle
    /\ ConnectIdle
    /\ AgentIdle
    /\ ReconcileIdle
    /\ RangeIdle
    /\ MacIdle
    /\ EndpointsIdle
    /\ HostNetIdle
    /\ PlanIdle
    /\ KeaIdle
    /\ RestartIdle
    /\ MeshInit
    /\ NetplanIdle
    /\ DiskIdle
    /\ DomainIdle
    /\ NodeSetIdle

SpecMesh == InitMesh /\ [][MeshNext]_vars

InitNetplan ==
    ClusterInit
    /\ FanoutIdle
    /\ WaitIdle
    /\ ConnectIdle
    /\ AgentIdle
    /\ ReconcileIdle
    /\ RangeIdle
    /\ MacIdle
    /\ EndpointsIdle
    /\ HostNetIdle
    /\ PlanIdle
    /\ KeaIdle
    /\ RestartIdle
    /\ MeshIdle
    /\ NetplanInit
    /\ DiskIdle
    /\ DomainIdle
    /\ NodeSetIdle

SpecNetplan == InitNetplan /\ [][NetplanNext]_vars

InitDisk ==
    ClusterInit
    /\ FanoutIdle
    /\ WaitIdle
    /\ ConnectIdle
    /\ AgentIdle
    /\ ReconcileIdle
    /\ RangeIdle
    /\ MacIdle
    /\ EndpointsIdle
    /\ HostNetIdle
    /\ PlanIdle
    /\ KeaIdle
    /\ RestartIdle
    /\ MeshIdle
    /\ NetplanIdle
    /\ DiskInit
    /\ DomainIdle
    /\ NodeSetIdle

SpecDisk == InitDisk /\ [][DiskNext]_vars

InitDomain ==
    ClusterInit
    /\ FanoutIdle
    /\ WaitIdle
    /\ ConnectIdle
    /\ AgentIdle
    /\ ReconcileIdle
    /\ RangeIdle
    /\ MacIdle
    /\ EndpointsIdle
    /\ HostNetIdle
    /\ PlanIdle
    /\ KeaIdle
    /\ RestartIdle
    /\ MeshIdle
    /\ NetplanIdle
    /\ DiskIdle
    /\ DomainInit
    /\ NodeSetIdle

SpecDomain == InitDomain /\ [][DomainNext]_vars

InitNodeSet ==
    ClusterInit
    /\ FanoutIdle
    /\ WaitIdle
    /\ ConnectIdle
    /\ AgentIdle
    /\ ReconcileIdle
    /\ RangeIdle
    /\ MacIdle
    /\ EndpointsIdle
    /\ HostNetIdle
    /\ PlanIdle
    /\ KeaIdle
    /\ RestartIdle
    /\ MeshIdle
    /\ NetplanIdle
    /\ DiskIdle
    /\ DomainIdle
    /\ NodeSetInit

SpecNodeSet == InitNodeSet /\ [][NodeSetNext]_vars

-----------------------------------------------------------------------------
(***************************************************************************)
(* Claims about the Cluster object (checked under SpecCluster)             *)
(***************************************************************************)

\* C1: as long as no prepare() has run to completion the object is
\* unprepared (also after a prepare() that raised part-way), every finished
\* validate(), deploy() and remove() ended with a ContextualError, and no
\* outward action (connection context, copy, remote command) was performed.
C1_UnpreparedCallsRejected ==
    ~prepareCompleted =>
        /\ ~prepared
        /\ ~ctxOpen
        /\ cpc = "idle"
        /\ effects = 0
        /\ ran = {}
        /\ (lastCall \in {"validate", "deploy", "remove"}
                => lastResult = "ContextualError")

\* a deploy() refused on an object whose only prepare() raised part-way
C1_Witness ==
    /\ ~prepareCompleted
    /\ prepareRaised
    /\ lastCall = "deploy"
    /\ lastResult = "ContextualError"

\* C10: in deploy() the agent is launched only when the SSH keys, the plan
\* and the agent script are on every blade; the plan is copied to a blade
\* only after the keys are on every blade and the script only after the plan
\* is on every blade; a deploy() in which a copy raised launched the agent
\* nowhere; and the connection context is entered exactly while deploy() is
\* inside its with block, so it is exited on every path out of it.
C10_AgentAfterAllCopies ==
    /\ ran # {} => \A b \in Blades : copied[b] = AllFiles
    /\ \A b \in Blades :
        /\ "config" \in copied[b] => \A c \in Blades : "ssh_keys" \in copied[c]
        /\ "script" \in copied[b] => \A c \in Blades : "config" \in copied[c]
    /\ (\E b \in Blades : copied[b] # AllFiles) => ran = {}
    /\ cpc = "idle" => ~ctxOpen
    /\ cpc # "idle" => ctxOpen

\* a deploy() that left because the plan copy raised on one blade only: the
\* agent ran nowhere and the context is exited
C10_Witness ==
    /\ cpc = "idle"
    /\ lastCall = "deploy"
    /\ lastResult = "raised"
    /\ \E b \in Blades : "config" \in copied[b]
    /\ \E b \in Blades : "config" \notin copied[b]
    /\ ran = {}
    /\ ~ctxOpen

-----------------------------------------------------------------------------
(***************************************************************************)
(* Claims about the parallel fan-out (checked under SpecFanout)            *)
(***************************************************************************)

\* the selected connections as a set
Selected == {fSel[i] : i \in 1..Len(fSel)}

\* the selected connections, in order, whose command ended non-zero
RECURSIVE FailingFrom(_)
FailingFrom(i) ==
    IF i > Len(fSel) THEN <<>>
    ELSE (IF exitval[fSel[i]] # 0 THEN <<fSel[i]>> ELSE <<>>)
         \o FailingFrom(i + 1)

C5_AggregatedErrorIffFailure ==
    fResult # "none" =>
        /\ (fResult = "ContextualError") <=> (\E c \in Selected : exitval[c] # 0)
        /\ errors = FailingFrom(1)
        /\ waited = Selected

\* the first of several connections failed, the others were still waited
\* for and succeeded, and the error names the first one only
C5_Witness ==
    /\ fResult = "ContextualError"
    /\ Len(fSel) >= 2
    /\ errors = <<fSel[1]>>
    /\ waited = Selected

-----------------------------------------------------------------------------
(***************************************************************************)
(* Claims about the subprocess wait (checked under SpecWait)               *)
(***************************************************************************)

\* C6: once SIGTERM has been sent for an exceeded timeout, the next
\* 5-second wait that finds the subprocess still running sends SIGKILL and
\* ends the wait with the timeout ContextualError.
C6_TermThenKill ==
    pollsAfterTerm >= 1 => (killSent /\ wResult = "timeout")

-----------------------------------------------------------------------------
(***************************************************************************)
(* Claims about the node connection (checked under SpecConnect)            *)
(***************************************************************************)

\* C7: establishing a node connection starts the ssh port forward at most
\* 10 times and makes at most 60 refused probes per start, it returns as
\* soon as a probe connects, and when it fails it fails with a
\* ContextualError, never with another exception.
C7_BoundedRetriesContextualError ==
    /\ launches <= Reconnects
    /\ probes <= Retries
    /\ nResult \in {"none", "returned", "ContextualError"}

\* C8: when a node connection has ended, by its close operation or because
\* establishing it failed, no ssh child of it is running and the inner blade
\* tunnel is not open.
C8_EndedConnectionReleased ==
    npc \in {"failed", "closed"} =>
        /\ sshProc # "running"
        /\ bladeTunnel # "open"

-----------------------------------------------------------------------------
(***************************************************************************)
(* Claims about the deployment agent (checked under SpecAgent)             *)
(***************************************************************************)

\* the phase an entry of the agent's log belongs to
PhaseOf(e) ==
    CASE e[1] = "net" -> 1
      [] e[1] = "kea_write" -> 2
      [] e[1] = "kea_restart" -> 3
      [] e[1] = "remove" -> 4
      [] e[1] \in {"define", "start"} -> 5

\* entry e of kind ev about x appears in the log before position j
DoneBefore(ev, x, j) ==
    \E i \in 1..(j - 1) : alog[i][1] = ev /\ alog[i][2] = x

\* C2: the agent's phases are strictly ordered: every virtual network is
\* constructed, then the Kea configuration is written and the service
\* restarted, then every node is destroyed and undefined, then the nodes are
\* defined and started; no node is started before every virtual network it
\* connects to has been constructed.
C2_PhasesInOrder ==
    /\ \A i, j \in 1..Len(alog) :
          i < j => PhaseOf(alog[i]) <= PhaseOf(alog[j])
    /\ \A j \in 1..Len(alog) :
          /\ alog[j][1] = "kea_write" =>
                \A k \in 1..Len(networks) : DoneBefore("net", networks[k], j)
          /\ alog[j][1] = "remove" => DoneBefore("kea_restart", "", j)
          /\ alog[j][1] = "define" =>
                \A k \in 1..Len(nodes) : DoneBefore("remove", nodes[k], j)
          /\ alog[j][1] = "start" =>
                /\ DoneBefore("define", alog[j][2], j)
                /\ \A n \in ifNets[alog[j][2][1]] : DoneBefore("net", n, j)

\* a complete run that constructed two networks and started two nodes, each
\* connected to a network
C2_Witness ==
    /\ aResult = "ok"
    /\ Len(networks) = 2
    /\ Len(nodes) >= 2
    /\ \A k \in 1..Len(nodes) :
          /\ ifNets[nodes[k][1]] # {}
          /\ \E j \in 1..Len(alog) :
                alog[j][1] = "start" /\ alog[j][2] = nodes[k]

\* C9: an agent invoked with the arguments of the command line deploy()
\* composes is not refused with a usage error.
C9_DeployArgsAccepted ==
    (apc = "exited" /\ argc = DeployArgc) => aResult # "usage"

-----------------------------------------------------------------------------
(***************************************************************************)
(* Claims about the network reconcile (checked under SpecReconcile)        *)
(***************************************************************************)

\* the blade holds the network: a vxlan link with the tunnel name enslaved
\* to a bridge with the bridge name, and the libvirt network started and
\* marked autostart
NetworkInPlace(b) ==
    /\ b.lnk["tunnel"].kind = "vxlan"
    /\ b.lnk["tunnel"].master = "bridge"
    /\ b.lnk["bridge"].kind = "bridge"
    /\ b.vnet = "active"
    /\ b.auto

\* C3: from any blade state, a successful reconcile of a network leaves one
\* vxlan link with the tunnel name enslaved to one bridge with the bridge
\* name and one libvirt network that is started and marked autostart, and a
\* second agent run after a successful one succeeds and leaves the blade as
\* the first run left it.
C3_ReconcileIdempotent ==
    rpc = "done" =>
        /\ rResult[runs] = "ok" => NetworkInPlace(blade)
        /\ (runs = 2 /\ rResult[1] = "ok") =>
                /\ rResult[2] = "ok"
                /\ blade = firstState

\* two successful runs of a network with a local block: the second one
\* started from a blade that held the tunnel, the bridge, the veth pair, the
\* FDB entries and the libvirt network
C3_Witness ==
    /\ rpc = "done"
    /\ runs = 2
    /\ rResult = <<"ok", "ok">>
    /\ rcfg.local
    /\ blade.lnk["peer"].master = "bridge"
    /\ blade.fdb = {"ip2", "ip3"}
    /\ NetworkInPlace(blade)

-----------------------------------------------------------------------------
(***************************************************************************)
(* Claims about the plan and the agent's node list (SpecAgent)             *)
(***************************************************************************)

\* C11: no virtual node instance is produced for a node class with
\* pure_base_class true, whatever its node_count and host blade class,
\* neither by the controller's query API nor by the blade agent.
C11_NoPureBaseInstance ==
    /\ \A c \in ApiNodeClasses(pureBase) : c \notin pureBase
    /\ \A k \in 1..Len(nodes) : nodes[k][1] \notin pureBase

-----------------------------------------------------------------------------
(***************************************************************************)
(* Claims about instance_range (SpecRange)                                 *)
(***************************************************************************)

\* the instances in a (start, end) range
RangeSet(r) == r[1]..(r[2] - 1)

\* C12: the ranges instance_range gives the blade instances of the hosting
\* blade class are pairwise disjoint, each holds at most instance_capacity
\* instances, and their union is exactly [0, node_count).
C12_RangesPartitionInstances ==
    Len(rgRanges) = rgBlades =>
        /\ \A a, b \in 1..rgBlades :
              a # b => RangeSet(rgRanges[a]) \cap RangeSet(rgRanges[b]) = {}
        /\ \A b \in 1..rgBlades :
              Cardinality(RangeSet(rgRanges[b])) <= rgCapacity
        /\ UNION {RangeSet(rgRanges[b]) : b \in 1..rgBlades}
              = 0..(rgCount - 1)

-----------------------------------------------------------------------------
(***************************************************************************)
(* Claims about MAC and IPv4 addresses (SpecMac)                           *)
(***************************************************************************)

\* C13: for a node instance the agent builds, the MAC address and the static
\* IPv4 address it puts into the netplan and the domain XML are the
\* instance-th entries of the addr_info.layer_2 address list and of the
\* AF_INET address list the controller wrote into the plan.
C13_AgentUsesPlannedAddresses ==
    mpc = "built" =>
        /\ mBuilt.mac_addr =
              mIface.addr_info.layer_2[1].addresses[mInstance + 1]
        /\ mBuilt.ipv4_addr =
              mIface.addr_info.ipv4[1].addresses[mInstance + 1]

\* a six-field MAC of two hex digits each, with the prefix 52:54:00
WellFormedKvmMac(m) ==
    /\ Len(m) = 6
    /\ \A i \in 1..6 : \E a, b \in 1..16 : m[i] = HexDigits[a] \o HexDigits[b]
    /\ SubSeq(m, 1, 3) = <<"52", "54", "00">>

\* C14: after prepare() the interface's layer-2 address list has exactly
\* node_count entries: the first min(k, node_count) are the k MAC addresses
\* that were configured for the interface, in order, and every other entry
\* is a well-formed MAC with prefix 52:54:00.
C14_MacListToppedUp ==
    mpc = "planned" =>
        LET macs == mIface.addr_info.layer_2[1].addresses
            kept == Min(Len(mConfigured), mNodeCount)
        IN  /\ Len(macs) = mNodeCount
            /\ SubSeq(macs, 1, kept) = SubSeq(mConfigured, 1, kept)
            /\ \A i \in (kept + 1)..mNodeCount : WellFormedKvmMac(macs[i])

-----------------------------------------------------------------------------
(***************************************************************************)
(* Claims about the networks of the plan (SpecEndpoints)                   *)
(***************************************************************************)

\* the blade classes a network names, all of them when it names none
ListedClasses(network) ==
    IF network.connected_blade_classes = <<>> THEN <<"bA", "bB">>
    ELSE network.connected_blade_classes[1]

\* number of blades of the first n listed classes
RECURSIVE BladesBefore(_, _)
BladesBefore(classes, n) ==
    IF n = 0 THEN 0
    ELSE BladesBefore(classes, n - 1) + eBladeCount[classes[n]]

\* C15: after prepare() every non-deleted network of the plan has
\* endpoint_ips equal to blade_ip(c, i, interconnect) for c over its
\* connected blade classes in listed order (all classes when unset) and i
\* ascending, so its length is the sum of their blade counts; endpoint_ips
\* is empty when blade_interconnect is null; deleted networks are not in
\* the plan.
C15_EndpointIpsPerBlade ==
    epc = "planned" =>
        /\ DOMAIN ePlan = {k \in 1..Len(eNetworks) : ~eNetworks[k].delete}
        /\ \A k \in DOMAIN ePlan :
            LET net == eNetworks[k]
                cls == ListedClasses(net)
                eps == ePlan[k].endpoint_ips
            IN  IF net.blade_interconnect = "None" THEN eps = <<>>
                ELSE /\ Len(eps) = BladesBefore(cls, Len(cls))
                     /\ \A j \in 1..Len(cls) :
                          \A i \in 0..(eBladeCount[cls[j]] - 1) :
                            eps[BladesBefore(cls, j - 1) + i + 1]
                              = <<cls[j], i, net.blade_interconnect>>

\* a plan with a host-blade network over both blade classes, a network
\* limited to the classes it lists in reverse order, and blades in each
C15_Witness ==
    /\ epc = "planned"
    /\ DOMAIN ePlan = {1, 2}
    /\ eNetworks[1].connected_blade_classes = << <<"bB", "bA">> >>
    /\ eNetworks[2].connected_blade_classes = <<>>
    /\ eBladeCount["bA"] = 2
    /\ eBladeCount["bB"] = 1
    /\ Len(ePlan[1].endpoint_ips) = 3
    /\ Len(ePlan[2].endpoint_ips) = 3

-----------------------------------------------------------------------------
(***************************************************************************)
(* Claims about the host-blade network (SpecHostNet)                       *)
(***************************************************************************)

\* number of nodes of the classes before class j
RECURSIVE NodesBefore(_)
NodesBefore(j) == IF j <= 1 THEN 0 ELSE NodesBefore(j - 1) + hNodeCount[j - 1]

\* C16 (as amended): the blade side gets the first usable host of the CIDR,
\* recorded once per blade instance in the blade_ips of the one
\* connected_blades entry of each blade class, and the node instances get
\* the following hosts in ascending order: instance i of the j-th node class
\* gets host number 2 + (nodes of earlier classes) + i.
C16_HostBladeAddresses ==
    hpc = "planned" =>
        /\ Len(hConnected) = 2
        /\ \A k \in 1..2 :
            LET c == <<"bA", "bB">>[k]
            IN  /\ hConnected[k].blade_class = c
                /\ Len(hConnected[k].blade_ips) = hBladeCount[c]
                /\ \A i \in 1..hBladeCount[c] :
                      /\ hConnected[k].blade_ips[i] = <<10, 255, 0, 1>>
                      /\ hConnected[k].blade_instances[i] = i - 1
        /\ Len(hAddresses) = Len(hNodeCount)
        /\ \A j \in 1..Len(hNodeCount) :
            /\ Len(hAddresses[j]) = hNodeCount[j]
            /\ \A i \in 1..hNodeCount[j] :
                  hAddresses[j][i] = <<10, 255, 0, 1 + NodesBefore(j) + i>>

\* the configuration of the example: blade classes of counts 3 and 1, one
\* node class of count 4, CIDR 10.255.0.0/24
C16_Example ==
    /\ hPrefixLen = 24
    /\ hBladeCount = [c \in {"bA", "bB"} |-> IF c = "bA" THEN 3 ELSE 1]
    /\ hNodeCount = <<4>>

\* the example planned: four blade_ips of 10.255.0.1 in all and the node
\* addresses 10.255.0.2 to 10.255.0.5 in instance order
C16_Witness ==
    /\ hpc = "planned"
    /\ C16_Example
    /\ Len(hConnected[1].blade_ips) + Len(hConnected[2].blade_ips) = 4
    /\ hAddresses = << << <<10, 255, 0, 2>>, <<10, 255, 0, 3>>,
                          <<10, 255, 0, 4>>, <<10, 255, 0, 5>> >> >>

\* C16 (as stated): in the example the blade side is 10.255.0.1 for each of
\* the 4 blades and the node class's static addresses are, in instance
\* order, 10.255.0.5, 10.255.0.4, 10.255.0.3, 10.255.0.2.
C16_NodesFromTheTail ==
    (hpc = "planned" /\ C16_Example) =>
        /\ Len(hConnected[1].blade_ips) + Len(hConnected[2].blade_ips) = 4
        /\ \A k \in 1..2 : \A i \in 1..Len(hConnected[k].blade_ips) :
              hConnected[k].blade_ips[i] = <<10, 255, 0, 1>>
        /\ hAddresses = << << <<10, 255, 0, 5>>, <<10, 255, 0, 4>>,
                              <<10, 255, 0, 3>>, <<10, 255, 0, 2>> >> >>

-----------------------------------------------------------------------------
(***************************************************************************)
(* Claims about the expanded node classes and the plan (SpecPlan)          *)
(***************************************************************************)

\* the classes built on blades: those that are not pure base classes
Deployable == {k \in DOMAIN xExpanded : ~xExpanded[k].pure_base_class}

\* C17: after the expansion no deployable node class holds a network
\* interface, an additional disk or a partition of an additional disk whose
\* delete flag is true.
C17_NoDeletedEntrySurvives ==
    xpc \in {"expanded", "planned"} =>
        \A k \in Deployable :
            /\ \A i \in DOMAIN xExpanded[k].network_interfaces :
                  xExpanded[k].network_interfaces[i].delete # <<TRUE>>
            /\ \A d \in DOMAIN xExpanded[k].additional_disks :
                  /\ xExpanded[k].additional_disks[d].delete # <<TRUE>>
                  /\ \A q \in DOMAIN
                            xExpanded[k].additional_disks[d].partitions :
                        xExpanded[k].additional_disks[d].partitions[q].delete
                            # <<TRUE>>

\* the child deletes the interface and the partition it inherits from the
\* base class and keeps the disk: both are gone from its expansion
C17_Witness ==
    /\ xpc = "expanded"
    /\ xClasses["child"].parent_class = <<"base">>
    /\ "i1" \in DOMAIN xClasses["base"].network_interfaces
    /\ "i1" \in DOMAIN xClasses["child"].network_interfaces
    /\ xClasses["child"].network_interfaces["i1"].delete = <<TRUE>>
    /\ "i1" \notin DOMAIN xExpanded["child"].network_interfaces
    /\ "d1" \in DOMAIN xClasses["base"].additional_disks
    /\ "p1" \in DOMAIN xClasses["base"].additional_disks["d1"].partitions
    /\ "d1" \in DOMAIN xClasses["child"].additional_disks
    /\ "p1" \in DOMAIN xClasses["child"].additional_disks["d1"].partitions
    /\ xClasses["child"].additional_disks["d1"].partitions["p1"].delete
           = <<TRUE>>
    /\ "d1" \in DOMAIN xExpanded["child"].additional_disks
    /\ "p1" \notin DOMAIN xExpanded["child"].additional_disks["d1"].partitions

\* C18: in an emitted plan every cluster_network named by an interface of a
\* deployable node class is the name of a network of the plan.
C18_ReferencedNetworksInPlan ==
    xpc = "planned" =>
        \A k \in Deployable :
            \A i \in DOMAIN xExpanded[k].network_interfaces :
                LET net == xExpanded[k].network_interfaces[i].cluster_network
                IN  net # <<>> => net[1] \in DOMAIN xPlanNetworks

-----------------------------------------------------------------------------
(***************************************************************************)
(* Claims about the Kea configuration (SpecKea)                            *)
(***************************************************************************)

\* the configuration written has a subnet4 entry for network n
HasSubnet(n) == \E i \in 1..Len(kSubnet4) : kSubnet4[i].network = n

\* the dhcp block of n is enabled and its blade_host names the blade class
\* and the blade instance of the agent
NamesThisBlade(n) ==
    /\ kDhcp[n] # <<>>
    /\ kDhcp[n][1].enabled
    /\ kDhcp[n][1].blade_class = kBladeClass
    /\ \/ kDhcp[n][1].blade_instance = <<0>> /\ kBladeInstance = "0"
       \/ kDhcp[n][1].blade_instance = <<1>> /\ kBladeInstance = "1"

\* n is named by an interface of a node class hosted on the agent's blade
\* class
InAgentScope(n) ==
    \E c \in {"compute", "storage"} :
        kHost[c] = kBladeClass /\ n \in kIfNets[c]

\* C19 (as amended): the configuration written has a subnet4 entry for a
\* network if and only if the network is in the agent's scope and its dhcp
\* block is enabled and names the agent's blade class and instance; there is
\* at most one entry per network.
C19_SubnetIffInScopeAndNamed ==
    kpc = "written" =>
        /\ \A n \in {"n1", "n2"} :
              HasSubnet(n) <=> (InAgentScope(n) /\ NamesThisBlade(n))
        /\ \A i, j \in 1..Len(kSubnet4) :
              kSubnet4[i].network = kSubnet4[j].network => i = j

\* both networks are in scope and only n1 names a blade, (bA, 1): the
\* agent (bA, 1) writes the subnet of n1 alone
C19_Witness ==
    /\ kpc = "written"
    /\ kBladeClass = "bA"
    /\ kBladeInstance = "1"
    /\ InAgentScope("n1")
    /\ InAgentScope("n2")
    /\ NamesThisBlade("n1")
    /\ kDhcp["n2"] = <<>>
    /\ kSubnet4 = <<[network |-> "n1"]>>

\* C19 (as stated): the configuration written has a subnet4 entry for a
\* network if and only if its dhcp block is enabled and names the agent's
\* blade class and instance.
C19_SubnetIffNamed ==
    kpc = "written" =>
        \A n \in {"n1", "n2"} : HasSubnet(n) <=> NamesThisBlade(n)

-----------------------------------------------------------------------------
(***************************************************************************)
(* Claims about the restart of kea-dhcp4-server (SpecRestart)              *)
(***************************************************************************)

\* C20: the agent polls is-active for at most about 30 polls: once more
\* than 30 polls have reported the service not active, the polling has
\* ended and restart_server has raised a ContextualError.
C20_PollingEndsInError ==
    kwPolls > RestartTimeout =>
        /\ kwpc = "raised"
        /\ kwResult = "ContextualError"

-----------------------------------------------------------------------------
(***************************************************************************)
(* Claims about the FDB mesh (SpecMesh)                                    *)
(***************************************************************************)

\* number of bridge fdb append commands issued for ip
AppendsFor(ip) == Cardinality({i \in 1..Len(meshAppends) : meshAppends[i] = ip})

\* C21: when the mesh of a network is built on a blade whose underlay
\* address L is in endpoint_ips, exactly one bridge fdb append is issued for
\* each endpoint IP other than L, none for L and none for any other address.
C21_OneAppendPerRemoteEndpoint ==
    meshPc = "done" =>
        /\ meshDevice # <<>>
        /\ \E i \in 1..Len(meshEndpointIps) : meshEndpointIps[i] = meshDevice[2]
        /\ \A ip \in {"A", "B", "C", "X", "Y", "L"} :
              AppendsFor(ip) =
                  IF /\ \E i \in 1..Len(meshEndpointIps) : meshEndpointIps[i] = ip
                     /\ ip # meshDevice[2]
                  THEN 1 ELSE 0

\* endpoint_ips = [A, B, C] on the blade whose underlay address is B: one
\* append for A, one for C, none for B
C21_Witness ==
    /\ meshPc = "done"
    /\ meshEndpointIps = <<"A", "B", "C">>
    /\ meshDevice = <<"eth0", "B">>
    /\ meshAppends = <<"A", "C">>

-----------------------------------------------------------------------------
(***************************************************************************)
(* Claims about the netplan entries (SpecNetplan)                          *)
(***************************************************************************)

\* C22: the netplan entry of an interface is exactly one of static (one
\* address and dhcp4 false) or DHCP (dhcp4 true and no address), and it is
\* DHCP if and only if mode is dynamic or reserved or the instance has no
\* entry in the address list.
C22_StaticOrDhcp ==
    npPc = "done" =>
        /\ \/ Len(npEntry[1].addresses) = 1 /\ ~npEntry[1].dhcp4
           \/ npEntry[1].addresses = <<>> /\ npEntry[1].dhcp4
        /\ npEntry[1].dhcp4 <=>
              \/ npMode \in {"dynamic", "reserved"}
              \/ npInstance >= Len(npAddresses)

-----------------------------------------------------------------------------
(***************************************************************************)
(* Claims about the building of a disk (SpecDisk)                          *)
(***************************************************************************)

\* the disk declares the key: it is present with a true value
Declares(key) == dConfig[key] = "set"

\* the configurations the building of a disk must refuse
C23_BadDisk ==
    \/ ~Declares("target_device")
    \/ ~(Declares("source_image") \/ Declares("partitions")
         \/ Declares("disk_size_mb"))
    \/ Declares("source_image") /\ Declares("partitions")

-----------------------------------------------------------------------------
(***************************************************************************)
(* Claims about a failing reconcile (SpecReconcile)                        *)
(***************************************************************************)

\* C24: a reconcile of a network that fails at the name-conflict check or
\* at the underlay selection (no local address is in endpoint_ips) leaves
\* the blade as it found it: no link, FDB entry or libvirt network has been
\* removed or created.
C24_EarlyFailureTouchesNothing ==
    [][(/\ rpc = "ready"
        /\ rpc' = "done"
        /\ \/ "tunnel" \in snap.interfaces /\ "tunnel" \notin snap.vxlans
           \/ "bridge" \in snap.interfaces /\ "bridge" \notin snap.bridges
           \/ ~rcfg.underlay)
       => blade' = blade]_vars

-----------------------------------------------------------------------------
(***************************************************************************)
(* Claims about the domains of the nodes (SpecDomain)                      *)
(***************************************************************************)

\* the positions in the log of the command for the host
LogPositions(command, host) ==
    {i \in 1..Len(vLog) : vLog[i][1] = command /\ vLog[i][2] = host}

\* C25: for every node, virsh destroy and then virsh undefine of its
\* hostname are issued before its virsh define and virsh start, a destroy
\* or undefine that fails does not end the run, and after a successful run
\* the domain of every hostname is defined and running whatever was there
\* before.
C25_ReplacedDomains ==
    /\ \A h \in {"h1", "h2"} :
          \A i \in LogPositions("define", h) \cup LogPositions("start", h) :
              \E d \in LogPositions("destroy", h) :
                  \E u \in LogPositions("undefine", h) : d < u /\ u < i
    /\ vPc = "remove" => vResult = "none"
    /\ vPc \in {"create", "ended"} =>
          \A h \in {"h1", "h2"} :
              /\ Cardinality(LogPositions("destroy", h)) = 1
              /\ Cardinality(LogPositions("undefine", h)) = 1
    /\ vResult = "ok" =>
          \A h \in {"h1", "h2"} :
              /\ vDomains[h] = "running"
              /\ Cardinality(LogPositions("define", h)) = 1
              /\ Cardinality(LogPositions("start", h)) = 1

\* a successful run on a blade where h1 had no domain (its destroy and
\* undefine failed) and h2 had a running one (both succeeded)
C25_Witness ==
    /\ vResult = "ok"
    /\ <<"destroy", "h1", FALSE>> = vLog[1]
    /\ <<"undefine", "h1", FALSE>> = vLog[2]
    /\ <<"destroy", "h2", TRUE>> = vLog[3]
    /\ <<"undefine", "h2", TRUE>> = vLog[4]
    /\ vDomains = [h \in {"h1", "h2"} |-> "running"]

\* C26: node_host_blade gives, for instance i of a node class, the host
\* blade class with the integer blade instance floor(i / instance_capacity),
\* which is the blade whose instance_range contains i.
C26_HostBladeOfInstance ==
    rgCall # <<>> =>
        /\ rgCall[2][1] = "returned"
        /\ rgCall[2][3] = rgCall[1] \div rgCapacity
        /\ rgCall[1] \in RangeSet(instance_range(rgCount, rgCapacity,
                                                  rgCall[2][3]))

\* C27: after prepare() every node class has a host-blade interface whose
\* static address list has as many entries as the class's node_count after
\* inheritance; the host-blade addresses of all classes and instances are
\* pairwise distinct hosts of the host-blade CIDR, and none of them is the
\* blade-side address.
C27_OneAddressPerNode ==
    hpc = "expanded" =>
        /\ \A j \in 1..Len(hExpanded) :
              Len(hExpanded[j].addresses) = hExpanded[j].node_count
        /\ \A j, k \in 1..Len(hExpanded) :
              \A a \in 1..Len(hExpanded[j].addresses) :
                \A b \in 1..Len(hExpanded[k].addresses) :
                  <<j, a>> # <<k, b>> =>
                      hExpanded[j].addresses[a] # hExpanded[k].addresses[b]
        /\ \A j \in 1..Len(hExpanded) :
              \A a \in 1..Len(hExpanded[j].addresses) :
                /\ \E n \in 1..Len(NetworkHosts(hPrefixLen)) :
                      hExpanded[j].addresses[a] = NetworkHosts(hPrefixLen)[n]
                /\ \A k \in 1..Len(hConnected) :
                      \A i \in 1..Len(hConnected[k].blade_ips) :
                        hExpanded[j].addresses[a] # hConnected[k].blade_ips[i]

-----------------------------------------------------------------------------
(***************************************************************************)
(* Claims about the connection sets (SpecNodeSet)                          *)
(***************************************************************************)

-----------------------------------------------------------------------------
(***************************************************************************)
(* Claims about the image files of the nodes (SpecDomain)                  *)
(***************************************************************************)

\* C29: no image file of a node is created, overwritten or customized while
\* a domain of the same hostname left from before may still be running:
\* within a run, virsh destroy of a hostname comes before every write to
\* the image files of that node.
C29_DestroyBeforeImageWrites ==
    \A i \in 1..Len(vWrites) : vWrites[i][3]

-----------------------------------------------------------------------------
(***************************************************************************)
(* Claims about the order of the expansion (SpecPlan)                      *)
(***************************************************************************)

\* C30: the expanded form of a deployable node class depends only on its
\* declared chain of ancestors, not on the order in which the classes are
\* expanded; in particular an interface or an additional disk that the
\* parent marks delete=true and the class does not declare again is absent
\* from the expanded class, also when the parent was expanded and pruned in
\* place before it.
C30_ExpansionOrderIrrelevant ==
    xpc \in {"expanded", "planned"} =>
        /\ \A k \in Deployable :
              xExpanded[k] = expand_node_classes(xClasses, Reverse(xOrder))[k]
        /\ xClasses["child"].parent_class = <<"base">> =>
              /\ \A i \in DOMAIN xClasses["base"].network_interfaces
                          \ DOMAIN xClasses["child"].network_interfaces :
                    Deleted(xClasses["base"].network_interfaces[i]) =>
                        i \notin DOMAIN xExpanded["child"].network_interfaces
              /\ \A d \in DOMAIN xClasses["base"].additional_disks
                          \ DOMAIN xClasses["child"].additional_disks :
                    Deleted(xClasses["base"].additional_disks[d]) =>
                        d \notin DOMAIN xExpanded["child"].additional_disks
====
